---- MODULE Spec2Model ----
(***************************************************************************)
(* Two LangGraph pipelines of the repository:                              *)
(*   - SQL_Query/src/core/workflow.py: sql_generator -> query_validator    *)
(*     -> query_executor -> response_explainer over one SQLWorkflowState;  *)
(*   - Web_Research_Assistant/src/worflow/research_workflow.py:            *)
(*     web_search -> content_loader -> summarizer -> report_writer ->      *)
(*     citation_cache over one ResearchState.                              *)
(* Python strings that the code inspects or formats are sequences of       *)
(* one-character strings; the external services (language model, SQLite,   *)
(* search, page loader) are nondeterministic choices of their outcomes.    *)
(***************************************************************************)
EXTENDS Integers, Sequences, FiniteSets, TLC

VARIABLES
    initial,    \* the SQLWorkflowState record the SQL run was started from
    state,      \* the SQLWorkflowState record of the current SQL run
    pc,         \* the node the SQL graph runs next ("END", "FAULT" when over)
    invoked,    \* names of the SQL nodes invoked so far, in order
    log,        \* calls made to the external services by the SQL nodes, in order
    research,   \* the ResearchState record of the current research run
    rpc,        \* the node the research graph runs next
    rlog,       \* calls made to the external services by the research nodes
    stream,     \* the generator of run_research_stream and its consumer
    returned,   \* what run_research returned to its caller (None until it has)
    api,        \* the FastAPI application of main.py: session store and requests
    app         \* the Streamlit application of app.py: session state and page

vars ==
    <<initial, state, pc, invoked, log, research, rpc, rlog, stream, returned, api, app>>
sqlVars == <<initial, state, pc, invoked, log>>
researchVars == <<research, rpc, rlog>>
callerVars == <<stream, returned>>

---------------------------------------------------------------------------
\* Python values: None, str and list are kept apart by a tag.

None == [tag |-> "None"]
Str(s) == [tag |-> "str", v |-> s]
List(l) == [tag |-> "list", v |-> l]

\* Python truthiness of an Optional[str] / Optional[list]: None, "" and [] are falsy.
Truthy(x) == x.tag # "None" /\ Len(x.v) > 0

Min(S) == CHOOSE x \in S : \A y \in S : x <= y
Max(S) == CHOOSE x \in S : \A y \in S : x >= y

---------------------------------------------------------------------------
\* Text operations of the Python str type, on sequences of characters.

\* 'abcdefghijklmnopqrstuvwxyz'
LOWER ==
    <<"a","b","c","d","e","f","g","h","i","j","k","l","m","n","o","p","q","r","s","t","u","v",
      "w","x","y","z">>
\* 'ABCDEFGHIJKLMNOPQRSTUVWXYZ'
UPPER ==
    <<"A","B","C","D","E","F","G","H","I","J","K","L","M","N","O","P","Q","R","S","T","U","V",
      "W","X","Y","Z">>
\* '0123456789'
DIGITS ==
    <<"0","1","2","3","4","5","6","7","8","9">>


\* A character that the module's lexer does not take inside a string (the grave
\* accent, a control character without an escape, any character above U+007F) is
\* written as the one-character string that names its code point: "U+017F" is the
\* long s.

\* The characters str.isspace() holds of, which str.strip() removes: U+0009-U+000D,
\* U+001C-U+0020, U+0085, U+00A0, U+1680, U+2000-U+200A, U+2028, U+2029, U+202F,
\* U+205F, U+3000.
WHITESPACE ==
    {"\t", "\n", "U+000B", "\f", "\r", "U+001C", "U+001D", "U+001E", "U+001F", " ",
     "U+0085", "U+00A0", "U+1680", "U+2000", "U+2001", "U+2002", "U+2003", "U+2004",
     "U+2005", "U+2006", "U+2007", "U+2008", "U+2009", "U+200A", "U+2028", "U+2029",
     "U+202F", "U+205F", "U+3000"}

\* str.upper() of every character it changes other than a-z, as <<character, its
\* upper-case text>>: the Unicode 14.0 case mappings of CPython 3.11, the special
\* casings of more than one character included (U+00DF gives 'SS').
SPECIAL_UPPER == <<
    <<"U+00B5", <<"U+039C">>>>, <<"U+00DF", <<"S", "S">>>>, <<"U+00E0", <<"U+00C0">>>>,
    <<"U+00E1", <<"U+00C1">>>>, <<"U+00E2", <<"U+00C2">>>>, <<"U+00E3", <<"U+00C3">>>>,
    <<"U+00E4", <<"U+00C4">>>>, <<"U+00E5", <<"U+00C5">>>>, <<"U+00E6", <<"U+00C6">>>>,
    <<"U+00E7", <<"U+00C7">>>>, <<"U+00E8", <<"U+00C8">>>>, <<"U+00E9", <<"U+00C9">>>>,
    <<"U+00EA", <<"U+00CA">>>>, <<"U+00EB", <<"U+00CB">>>>, <<"U+00EC", <<"U+00CC">>>>,
    <<"U+00ED", <<"U+00CD">>>>, <<"U+00EE", <<"U+00CE">>>>, <<"U+00EF", <<"U+00CF">>>>,
    <<"U+00F0", <<"U+00D0">>>>, <<"U+00F1", <<"U+00D1">>>>, <<"U+00F2", <<"U+00D2">>>>,
    <<"U+00F3", <<"U+00D3">>>>, <<"U+00F4", <<"U+00D4">>>>, <<"U+00F5", <<"U+00D5">>>>,
    <<"U+00F6", <<"U+00D6">>>>, <<"U+00F8", <<"U+00D8">>>>, <<"U+00F9", <<"U+00D9">>>>,
    <<"U+00FA", <<"U+00DA">>>>, <<"U+00FB", <<"U+00DB">>>>, <<"U+00FC", <<"U+00DC">>>>,
    <<"U+00FD", <<"U+00DD">>>>, <<"U+00FE", <<"U+00DE">>>>, <<"U+00FF", <<"U+0178">>>>,
    <<"U+0101", <<"U+0100">>>>, <<"U+0103", <<"U+0102">>>>, <<"U+0105", <<"U+0104">>>>,
    <<"U+0107", <<"U+0106">>>>, <<"U+0109", <<"U+0108">>>>, <<"U+010B", <<"U+010A">>>>,
    <<"U+010D", <<"U+010C">>>>, <<"U+010F", <<"U+010E">>>>, <<"U+0111", <<"U+0110">>>>,
    <<"U+0113", <<"U+0112">>>>, <<"U+0115", <<"U+0114">>>>, <<"U+0117", <<"U+0116">>>>,
    <<"U+0119", <<"U+0118">>>>, <<"U+011B", <<"U+011A">>>>, <<"U+011D", <<"U+011C">>>>,
    <<"U+011F", <<"U+011E">>>>, <<"U+0121", <<"U+0120">>>>, <<"U+0123", <<"U+0122">>>>,
    <<"U+0125", <<"U+0124">>>>, <<"U+0127", <<"U+0126">>>>, <<"U+0129", <<"U+0128">>>>,
    <<"U+012B", <<"U+012A">>>>, <<"U+012D", <<"U+012C">>>>, <<"U+012F", <<"U+012E">>>>,
    <<"U+0131", <<"I">>>>, <<"U+0133", <<"U+0132">>>>, <<"U+0135", <<"U+0134">>>>,
    <<"U+0137", <<"U+0136">>>>, <<"U+013A", <<"U+0139">>>>, <<"U+013C", <<"U+013B">>>>,
    <<"U+013E", <<"U+013D">>>>, <<"U+0140", <<"U+013F">>>>, <<"U+0142", <<"U+0141">>>>,
    <<"U+0144", <<"U+0143">>>>, <<"U+0146", <<"U+0145">>>>, <<"U+0148", <<"U+0147">>>>,
    <<"U+0149", <<"U+02BC", "N">>>>, <<"U+014B", <<"U+014A">>>>, <<"U+014D", <<"U+014C">>>>,
    <<"U+014F", <<"U+014E">>>>, <<"U+0151", <<"U+0150">>>>, <<"U+0153", <<"U+0152">>>>,
    <<"U+0155", <<"U+0154">>>>, <<"U+0157", <<"U+0156">>>>, <<"U+0159", <<"U+0158">>>>,
    <<"U+015B", <<"U+015A">>>>, <<"U+015D", <<"U+015C">>>>, <<"U+015F", <<"U+015E">>>>,
    <<"U+0161", <<"U+0160">>>>, <<"U+0163", <<"U+0162">>>>, <<"U+0165", <<"U+0164">>>>,
    <<"U+0167", <<"U+0166">>>>, <<"U+0169", <<"U+0168">>>>, <<"U+016B", <<"U+016A">>>>,
    <<"U+016D", <<"U+016C">>>>, <<"U+016F", <<"U+016E">>>>, <<"U+0171", <<"U+0170">>>>,
    <<"U+0173", <<"U+0172">>>>, <<"U+0175", <<"U+0174">>>>, <<"U+0177", <<"U+0176">>>>,
    <<"U+017A", <<"U+0179">>>>, <<"U+017C", <<"U+017B">>>>, <<"U+017E", <<"U+017D">>>>,
    <<"U+017F", <<"S">>>>, <<"U+0180", <<"U+0243">>>>, <<"U+0183", <<"U+0182">>>>,
    <<"U+0185", <<"U+0184">>>>, <<"U+0188", <<"U+0187">>>>, <<"U+018C", <<"U+018B">>>>,
    <<"U+0192", <<"U+0191">>>>, <<"U+0195", <<"U+01F6">>>>, <<"U+0199", <<"U+0198">>>>,
    <<"U+019A", <<"U+023D">>>>, <<"U+019E", <<"U+0220">>>>, <<"U+01A1", <<"U+01A0">>>>,
    <<"U+01A3", <<"U+01A2">>>>, <<"U+01A5", <<"U+01A4">>>>, <<"U+01A8", <<"U+01A7">>>>,
    <<"U+01AD", <<"U+01AC">>>>, <<"U+01B0", <<"U+01AF">>>>, <<"U+01B4", <<"U+01B3">>>>,
    <<"U+01B6", <<"U+01B5">>>>, <<"U+01B9", <<"U+01B8">>>>, <<"U+01BD", <<"U+01BC">>>>,
    <<"U+01BF", <<"U+01F7">>>>, <<"U+01C5", <<"U+01C4">>>>, <<"U+01C6", <<"U+01C4">>>>,
    <<"U+01C8", <<"U+01C7">>>>, <<"U+01C9", <<"U+01C7">>>>, <<"U+01CB", <<"U+01CA">>>>,
    <<"U+01CC", <<"U+01CA">>>>, <<"U+01CE", <<"U+01CD">>>>, <<"U+01D0", <<"U+01CF">>>>,
    <<"U+01D2", <<"U+01D1">>>>, <<"U+01D4", <<"U+01D3">>>>, <<"U+01D6", <<"U+01D5">>>>,
    <<"U+01D8", <<"U+01D7">>>>, <<"U+01DA", <<"U+01D9">>>>, <<"U+01DC", <<"U+01DB">>>>,
    <<"U+01DD", <<"U+018E">>>>, <<"U+01DF", <<"U+01DE">>>>, <<"U+01E1", <<"U+01E0">>>>,
    <<"U+01E3", <<"U+01E2">>>>, <<"U+01E5", <<"U+01E4">>>>, <<"U+01E7", <<"U+01E6">>>>,
    <<"U+01E9", <<"U+01E8">>>>, <<"U+01EB", <<"U+01EA">>>>, <<"U+01ED", <<"U+01EC">>>>,
    <<"U+01EF", <<"U+01EE">>>>, <<"U+01F0", <<"J", "U+030C">>>>, <<"U+01F2", <<"U+01F1">>>>,
    <<"U+01F3", <<"U+01F1">>>>, <<"U+01F5", <<"U+01F4">>>>, <<"U+01F9", <<"U+01F8">>>>,
    <<"U+01FB", <<"U+01FA">>>>, <<"U+01FD", <<"U+01FC">>>>, <<"U+01FF", <<"U+01FE">>>>,
    <<"U+0201", <<"U+0200">>>>, <<"U+0203", <<"U+0202">>>>, <<"U+0205", <<"U+0204">>>>,
    <<"U+0207", <<"U+0206">>>>, <<"U+0209", <<"U+0208">>>>, <<"U+020B", <<"U+020A">>>>,
    <<"U+020D", <<"U+020C">>>>, <<"U+020F", <<"U+020E">>>>, <<"U+0211", <<"U+0210">>>>,
    <<"U+0213", <<"U+0212">>>>, <<"U+0215", <<"U+0214">>>>, <<"U+0217", <<"U+0216">>>>,
    <<"U+0219", <<"U+0218">>>>, <<"U+021B", <<"U+021A">>>>, <<"U+021D", <<"U+021C">>>>,
    <<"U+021F", <<"U+021E">>>>, <<"U+0223", <<"U+0222">>>>, <<"U+0225", <<"U+0224">>>>,
    <<"U+0227", <<"U+0226">>>>, <<"U+0229", <<"U+0228">>>>, <<"U+022B", <<"U+022A">>>>,
    <<"U+022D", <<"U+022C">>>>, <<"U+022F", <<"U+022E">>>>, <<"U+0231", <<"U+0230">>>>,
    <<"U+0233", <<"U+0232">>>>, <<"U+023C", <<"U+023B">>>>, <<"U+023F", <<"U+2C7E">>>>,
    <<"U+0240", <<"U+2C7F">>>>, <<"U+0242", <<"U+0241">>>>, <<"U+0247", <<"U+0246">>>>,
    <<"U+0249", <<"U+0248">>>>, <<"U+024B", <<"U+024A">>>>, <<"U+024D", <<"U+024C">>>>,
    <<"U+024F", <<"U+024E">>>>, <<"U+0250", <<"U+2C6F">>>>, <<"U+0251", <<"U+2C6D">>>>,
    <<"U+0252", <<"U+2C70">>>>, <<"U+0253", <<"U+0181">>>>, <<"U+0254", <<"U+0186">>>>,
    <<"U+0256", <<"U+0189">>>>, <<"U+0257", <<"U+018A">>>>, <<"U+0259", <<"U+018F">>>>,
    <<"U+025B", <<"U+0190">>>>, <<"U+025C", <<"U+A7AB">>>>, <<"U+0260", <<"U+0193">>>>,
    <<"U+0261", <<"U+A7AC">>>>, <<"U+0263", <<"U+0194">>>>, <<"U+0265", <<"U+A78D">>>>,
    <<"U+0266", <<"U+A7AA">>>>, <<"U+0268", <<"U+0197">>>>, <<"U+0269", <<"U+0196">>>>,
    <<"U+026A", <<"U+A7AE">>>>, <<"U+026B", <<"U+2C62">>>>, <<"U+026C", <<"U+A7AD">>>>,
    <<"U+026F", <<"U+019C">>>>, <<"U+0271", <<"U+2C6E">>>>, <<"U+0272", <<"U+019D">>>>,
    <<"U+0275", <<"U+019F">>>>, <<"U+027D", <<"U+2C64">>>>, <<"U+0280", <<"U+01A6">>>>,
    <<"U+0282", <<"U+A7C5">>>>, <<"U+0283", <<"U+01A9">>>>, <<"U+0287", <<"U+A7B1">>>>,
    <<"U+0288", <<"U+01AE">>>>, <<"U+0289", <<"U+0244">>>>, <<"U+028A", <<"U+01B1">>>>,
    <<"U+028B", <<"U+01B2">>>>, <<"U+028C", <<"U+0245">>>>, <<"U+0292", <<"U+01B7">>>>,
    <<"U+029D", <<"U+A7B2">>>>, <<"U+029E", <<"U+A7B0">>>>, <<"U+0345", <<"U+0399">>>>,
    <<"U+0371", <<"U+0370">>>>, <<"U+0373", <<"U+0372">>>>, <<"U+0377", <<"U+0376">>>>,
    <<"U+037B", <<"U+03FD">>>>, <<"U+037C", <<"U+03FE">>>>, <<"U+037D", <<"U+03FF">>>>,
    <<"U+0390", <<"U+0399", "U+0308", "U+0301">>>>, <<"U+03AC", <<"U+0386">>>>,
    <<"U+03AD", <<"U+0388">>>>, <<"U+03AE", <<"U+0389">>>>, <<"U+03AF", <<"U+038A">>>>,
    <<"U+03B0", <<"U+03A5", "U+0308", "U+0301">>>>, <<"U+03B1", <<"U+0391">>>>,
    <<"U+03B2", <<"U+0392">>>>, <<"U+03B3", <<"U+0393">>>>, <<"U+03B4", <<"U+0394">>>>,
    <<"U+03B5", <<"U+0395">>>>, <<"U+03B6", <<"U+0396">>>>, <<"U+03B7", <<"U+0397">>>>,
    <<"U+03B8", <<"U+0398">>>>, <<"U+03B9", <<"U+0399">>>>, <<"U+03BA", <<"U+039A">>>>,
    <<"U+03BB", <<"U+039B">>>>, <<"U+03BC", <<"U+039C">>>>, <<"U+03BD", <<"U+039D">>>>,
    <<"U+03BE", <<"U+039E">>>>, <<"U+03BF", <<"U+039F">>>>, <<"U+03C0", <<"U+03A0">>>>,
    <<"U+03C1", <<"U+03A1">>>>, <<"U+03C2", <<"U+03A3">>>>, <<"U+03C3", <<"U+03A3">>>>,
    <<"U+03C4", <<"U+03A4">>>>, <<"U+03C5", <<"U+03A5">>>>, <<"U+03C6", <<"U+03A6">>>>,
    <<"U+03C7", <<"U+03A7">>>>, <<"U+03C8", <<"U+03A8">>>>, <<"U+03C9", <<"U+03A9">>>>,
    <<"U+03CA", <<"U+03AA">>>>, <<"U+03CB", <<"U+03AB">>>>, <<"U+03CC", <<"U+038C">>>>,
    <<"U+03CD", <<"U+038E">>>>, <<"U+03CE", <<"U+038F">>>>, <<"U+03D0", <<"U+0392">>>>,
    <<"U+03D1", <<"U+0398">>>>, <<"U+03D5", <<"U+03A6">>>>, <<"U+03D6", <<"U+03A0">>>>,
    <<"U+03D7", <<"U+03CF">>>>, <<"U+03D9", <<"U+03D8">>>>, <<"U+03DB", <<"U+03DA">>>>,
    <<"U+03DD", <<"U+03DC">>>>, <<"U+03DF", <<"U+03DE">>>>, <<"U+03E1", <<"U+03E0">>>>,
    <<"U+03E3", <<"U+03E2">>>>, <<"U+03E5", <<"U+03E4">>>>, <<"U+03E7", <<"U+03E6">>>>,
    <<"U+03E9", <<"U+03E8">>>>, <<"U+03EB", <<"U+03EA">>>>, <<"U+03ED", <<"U+03EC">>>>,
    <<"U+03EF", <<"U+03EE">>>>, <<"U+03F0", <<"U+039A">>>>, <<"U+03F1", <<"U+03A1">>>>,
    <<"U+03F2", <<"U+03F9">>>>, <<"U+03F3", <<"U+037F">>>>, <<"U+03F5", <<"U+0395">>>>,
    <<"U+03F8", <<"U+03F7">>>>, <<"U+03FB", <<"U+03FA">>>>, <<"U+0430", <<"U+0410">>>>,
    <<"U+0431", <<"U+0411">>>>, <<"U+0432", <<"U+0412">>>>, <<"U+0433", <<"U+0413">>>>,
    <<"U+0434", <<"U+0414">>>>, <<"U+0435", <<"U+0415">>>>, <<"U+0436", <<"U+0416">>>>,
    <<"U+0437", <<"U+0417">>>>, <<"U+0438", <<"U+0418">>>>, <<"U+0439", <<"U+0419">>>>,
    <<"U+043A", <<"U+041A">>>>, <<"U+043B", <<"U+041B">>>>, <<"U+043C", <<"U+041C">>>>,
    <<"U+043D", <<"U+041D">>>>, <<"U+043E", <<"U+041E">>>>, <<"U+043F", <<"U+041F">>>>,
    <<"U+0440", <<"U+0420">>>>, <<"U+0441", <<"U+0421">>>>, <<"U+0442", <<"U+0422">>>>,
    <<"U+0443", <<"U+0423">>>>, <<"U+0444", <<"U+0424">>>>, <<"U+0445", <<"U+0425">>>>,
    <<"U+0446", <<"U+0426">>>>, <<"U+0447", <<"U+0427">>>>, <<"U+0448", <<"U+0428">>>>,
    <<"U+0449", <<"U+0429">>>>, <<"U+044A", <<"U+042A">>>>, <<"U+044B", <<"U+042B">>>>,
    <<"U+044C", <<"U+042C">>>>, <<"U+044D", <<"U+042D">>>>, <<"U+044E", <<"U+042E">>>>,
    <<"U+044F", <<"U+042F">>>>, <<"U+0450", <<"U+0400">>>>, <<"U+0451", <<"U+0401">>>>,
    <<"U+0452", <<"U+0402">>>>, <<"U+0453", <<"U+0403">>>>, <<"U+0454", <<"U+0404">>>>,
    <<"U+0455", <<"U+0405">>>>, <<"U+0456", <<"U+0406">>>>, <<"U+0457", <<"U+0407">>>>,
    <<"U+0458", <<"U+0408">>>>, <<"U+0459", <<"U+0409">>>>, <<"U+045A", <<"U+040A">>>>,
    <<"U+045B", <<"U+040B">>>>, <<"U+045C", <<"U+040C">>>>, <<"U+045D", <<"U+040D">>>>,
    <<"U+045E", <<"U+040E">>>>, <<"U+045F", <<"U+040F">>>>, <<"U+0461", <<"U+0460">>>>,
    <<"U+0463", <<"U+0462">>>>, <<"U+0465", <<"U+0464">>>>, <<"U+0467", <<"U+0466">>>>,
    <<"U+0469", <<"U+0468">>>>, <<"U+046B", <<"U+046A">>>>, <<"U+046D", <<"U+046C">>>>,
    <<"U+046F", <<"U+046E">>>>, <<"U+0471", <<"U+0470">>>>, <<"U+0473", <<"U+0472">>>>,
    <<"U+0475", <<"U+0474">>>>, <<"U+0477", <<"U+0476">>>>, <<"U+0479", <<"U+0478">>>>,
    <<"U+047B", <<"U+047A">>>>, <<"U+047D", <<"U+047C">>>>, <<"U+047F", <<"U+047E">>>>,
    <<"U+0481", <<"U+0480">>>>, <<"U+048B", <<"U+048A">>>>, <<"U+048D", <<"U+048C">>>>,
    <<"U+048F", <<"U+048E">>>>, <<"U+0491", <<"U+0490">>>>, <<"U+0493", <<"U+0492">>>>,
    <<"U+0495", <<"U+0494">>>>, <<"U+0497", <<"U+0496">>>>, <<"U+0499", <<"U+0498">>>>,
    <<"U+049B", <<"U+049A">>>>, <<"U+049D", <<"U+049C">>>>, <<"U+049F", <<"U+049E">>>>,
    <<"U+04A1", <<"U+04A0">>>>, <<"U+04A3", <<"U+04A2">>>>, <<"U+04A5", <<"U+04A4">>>>,
    <<"U+04A7", <<"U+04A6">>>>, <<"U+04A9", <<"U+04A8">>>>, <<"U+04AB", <<"U+04AA">>>>,
    <<"U+04AD", <<"U+04AC">>>>, <<"U+04AF", <<"U+04AE">>>>, <<"U+04B1", <<"U+04B0">>>>,
    <<"U+04B3", <<"U+04B2">>>>, <<"U+04B5", <<"U+04B4">>>>, <<"U+04B7", <<"U+04B6">>>>,
    <<"U+04B9", <<"U+04B8">>>>, <<"U+04BB", <<"U+04BA">>>>, <<"U+04BD", <<"U+04BC">>>>,
    <<"U+04BF", <<"U+04BE">>>>, <<"U+04C2", <<"U+04C1">>>>, <<"U+04C4", <<"U+04C3">>>>,
    <<"U+04C6", <<"U+04C5">>>>, <<"U+04C8", <<"U+04C7">>>>, <<"U+04CA", <<"U+04C9">>>>,
    <<"U+04CC", <<"U+04CB">>>>, <<"U+04CE", <<"U+04CD">>>>, <<"U+04CF", <<"U+04C0">>>>,
    <<"U+04D1", <<"U+04D0">>>>, <<"U+04D3", <<"U+04D2">>>>, <<"U+04D5", <<"U+04D4">>>>,
    <<"U+04D7", <<"U+04D6">>>>, <<"U+04D9", <<"U+04D8">>>>, <<"U+04DB", <<"U+04DA">>>>,
    <<"U+04DD", <<"U+04DC">>>>, <<"U+04DF", <<"U+04DE">>>>, <<"U+04E1", <<"U+04E0">>>>,
    <<"U+04E3", <<"U+04E2">>>>, <<"U+04E5", <<"U+04E4">>>>, <<"U+04E7", <<"U+04E6">>>>,
    <<"U+04E9", <<"U+04E8">>>>, <<"U+04EB", <<"U+04EA">>>>, <<"U+04ED", <<"U+04EC">>>>,
    <<"U+04EF", <<"U+04EE">>>>, <<"U+04F1", <<"U+04F0">>>>, <<"U+04F3", <<"U+04F2">>>>,
    <<"U+04F5", <<"U+04F4">>>>, <<"U+04F7", <<"U+04F6">>>>, <<"U+04F9", <<"U+04F8">>>>,
    <<"U+04FB", <<"U+04FA">>>>, <<"U+04FD", <<"U+04FC">>>>, <<"U+04FF", <<"U+04FE">>>>,
    <<"U+0501", <<"U+0500">>>>, <<"U+0503", <<"U+0502">>>>, <<"U+0505", <<"U+0504">>>>,
    <<"U+0507", <<"U+0506">>>>, <<"U+0509", <<"U+0508">>>>, <<"U+050B", <<"U+050A">>>>,
    <<"U+050D", <<"U+050C">>>>, <<"U+050F", <<"U+050E">>>>, <<"U+0511", <<"U+0510">>>>,
    <<"U+0513", <<"U+0512">>>>, <<"U+0515", <<"U+0514">>>>, <<"U+0517", <<"U+0516">>>>,
    <<"U+0519", <<"U+0518">>>>, <<"U+051B", <<"U+051A">>>>, <<"U+051D", <<"U+051C">>>>,
    <<"U+051F", <<"U+051E">>>>, <<"U+0521", <<"U+0520">>>>, <<"U+0523", <<"U+0522">>>>,
    <<"U+0525", <<"U+0524">>>>, <<"U+0527", <<"U+0526">>>>, <<"U+0529", <<"U+0528">>>>,
    <<"U+052B", <<"U+052A">>>>, <<"U+052D", <<"U+052C">>>>, <<"U+052F", <<"U+052E">>>>,
    <<"U+0561", <<"U+0531">>>>, <<"U+0562", <<"U+0532">>>>, <<"U+0563", <<"U+0533">>>>,
    <<"U+0564", <<"U+0534">>>>, <<"U+0565", <<"U+0535">>>>, <<"U+0566", <<"U+0536">>>>,
    <<"U+0567", <<"U+0537">>>>, <<"U+0568", <<"U+0538">>>>, <<"U+0569", <<"U+0539">>>>,
    <<"U+056A", <<"U+053A">>>>, <<"U+056B", <<"U+053B">>>>, <<"U+056C", <<"U+053C">>>>,
    <<"U+056D", <<"U+053D">>>>, <<"U+056E", <<"U+053E">>>>, <<"U+056F", <<"U+053F">>>>,
    <<"U+0570", <<"U+0540">>>>, <<"U+0571", <<"U+0541">>>>, <<"U+0572", <<"U+0542">>>>,
    <<"U+0573", <<"U+0543">>>>, <<"U+0574", <<"U+0544">>>>, <<"U+0575", <<"U+0545">>>>,
    <<"U+0576", <<"U+0546">>>>, <<"U+0577", <<"U+0547">>>>, <<"U+0578", <<"U+0548">>>>,
    <<"U+0579", <<"U+0549">>>>, <<"U+057A", <<"U+054A">>>>, <<"U+057B", <<"U+054B">>>>,
    <<"U+057C", <<"U+054C">>>>, <<"U+057D", <<"U+054D">>>>, <<"U+057E", <<"U+054E">>>>,
    <<"U+057F", <<"U+054F">>>>, <<"U+0580", <<"U+0550">>>>, <<"U+0581", <<"U+0551">>>>,
    <<"U+0582", <<"U+0552">>>>, <<"U+0583", <<"U+0553">>>>, <<"U+0584", <<"U+0554">>>>,
    <<"U+0585", <<"U+0555">>>>, <<"U+0586", <<"U+0556">>>>,
    <<"U+0587", <<"U+0535", "U+0552">>>>, <<"U+10D0", <<"U+1C90">>>>,
    <<"U+10D1", <<"U+1C91">>>>, <<"U+10D2", <<"U+1C92">>>>, <<"U+10D3", <<"U+1C93">>>>,
    <<"U+10D4", <<"U+1C94">>>>, <<"U+10D5", <<"U+1C95">>>>, <<"U+10D6", <<"U+1C96">>>>,
    <<"U+10D7", <<"U+1C97">>>>, <<"U+10D8", <<"U+1C98">>>>, <<"U+10D9", <<"U+1C99">>>>,
    <<"U+10DA", <<"U+1C9A">>>>, <<"U+10DB", <<"U+1C9B">>>>, <<"U+10DC", <<"U+1C9C">>>>,
    <<"U+10DD", <<"U+1C9D">>>>, <<"U+10DE", <<"U+1C9E">>>>, <<"U+10DF", <<"U+1C9F">>>>,
    <<"U+10E0", <<"U+1CA0">>>>, <<"U+10E1", <<"U+1CA1">>>>, <<"U+10E2", <<"U+1CA2">>>>,
    <<"U+10E3", <<"U+1CA3">>>>, <<"U+10E4", <<"U+1CA4">>>>, <<"U+10E5", <<"U+1CA5">>>>,
    <<"U+10E6", <<"U+1CA6">>>>, <<"U+10E7", <<"U+1CA7">>>>, <<"U+10E8", <<"U+1CA8">>>>,
    <<"U+10E9", <<"U+1CA9">>>>, <<"U+10EA", <<"U+1CAA">>>>, <<"U+10EB", <<"U+1CAB">>>>,
    <<"U+10EC", <<"U+1CAC">>>>, <<"U+10ED", <<"U+1CAD">>>>, <<"U+10EE", <<"U+1CAE">>>>,
    <<"U+10EF", <<"U+1CAF">>>>, <<"U+10F0", <<"U+1CB0">>>>, <<"U+10F1", <<"U+1CB1">>>>,
    <<"U+10F2", <<"U+1CB2">>>>, <<"U+10F3", <<"U+1CB3">>>>, <<"U+10F4", <<"U+1CB4">>>>,
    <<"U+10F5", <<"U+1CB5">>>>, <<"U+10F6", <<"U+1CB6">>>>, <<"U+10F7", <<"U+1CB7">>>>,
    <<"U+10F8", <<"U+1CB8">>>>, <<"U+10F9", <<"U+1CB9">>>>, <<"U+10FA", <<"U+1CBA">>>>,
    <<"U+10FD", <<"U+1CBD">>>>, <<"U+10FE", <<"U+1CBE">>>>, <<"U+10FF", <<"U+1CBF">>>>,
    <<"U+13F8", <<"U+13F0">>>>, <<"U+13F9", <<"U+13F1">>>>, <<"U+13FA", <<"U+13F2">>>>,
    <<"U+13FB", <<"U+13F3">>>>, <<"U+13FC", <<"U+13F4">>>>, <<"U+13FD", <<"U+13F5">>>>,
    <<"U+1C80", <<"U+0412">>>>, <<"U+1C81", <<"U+0414">>>>, <<"U+1C82", <<"U+041E">>>>,
    <<"U+1C83", <<"U+0421">>>>, <<"U+1C84", <<"U+0422">>>>, <<"U+1C85", <<"U+0422">>>>,
    <<"U+1C86", <<"U+042A">>>>, <<"U+1C87", <<"U+0462">>>>, <<"U+1C88", <<"U+A64A">>>>,
    <<"U+1D79", <<"U+A77D">>>>, <<"U+1D7D", <<"U+2C63">>>>, <<"U+1D8E", <<"U+A7C6">>>>,
    <<"U+1E01", <<"U+1E00">>>>, <<"U+1E03", <<"U+1E02">>>>, <<"U+1E05", <<"U+1E04">>>>,
    <<"U+1E07", <<"U+1E06">>>>, <<"U+1E09", <<"U+1E08">>>>, <<"U+1E0B", <<"U+1E0A">>>>,
    <<"U+1E0D", <<"U+1E0C">>>>, <<"U+1E0F", <<"U+1E0E">>>>, <<"U+1E11", <<"U+1E10">>>>,
    <<"U+1E13", <<"U+1E12">>>>, <<"U+1E15", <<"U+1E14">>>>, <<"U+1E17", <<"U+1E16">>>>,
    <<"U+1E19", <<"U+1E18">>>>, <<"U+1E1B", <<"U+1E1A">>>>, <<"U+1E1D", <<"U+1E1C">>>>,
    <<"U+1E1F", <<"U+1E1E">>>>, <<"U+1E21", <<"U+1E20">>>>, <<"U+1E23", <<"U+1E22">>>>,
    <<"U+1E25", <<"U+1E24">>>>, <<"U+1E27", <<"U+1E26">>>>, <<"U+1E29", <<"U+1E28">>>>,
    <<"U+1E2B", <<"U+1E2A">>>>, <<"U+1E2D", <<"U+1E2C">>>>, <<"U+1E2F", <<"U+1E2E">>>>,
    <<"U+1E31", <<"U+1E30">>>>, <<"U+1E33", <<"U+1E32">>>>, <<"U+1E35", <<"U+1E34">>>>,
    <<"U+1E37", <<"U+1E36">>>>, <<"U+1E39", <<"U+1E38">>>>, <<"U+1E3B", <<"U+1E3A">>>>,
    <<"U+1E3D", <<"U+1E3C">>>>, <<"U+1E3F", <<"U+1E3E">>>>, <<"U+1E41", <<"U+1E40">>>>,
    <<"U+1E43", <<"U+1E42">>>>, <<"U+1E45", <<"U+1E44">>>>, <<"U+1E47", <<"U+1E46">>>>,
    <<"U+1E49", <<"U+1E48">>>>, <<"U+1E4B", <<"U+1E4A">>>>, <<"U+1E4D", <<"U+1E4C">>>>,
    <<"U+1E4F", <<"U+1E4E">>>>, <<"U+1E51", <<"U+1E50">>>>, <<"U+1E53", <<"U+1E52">>>>,
    <<"U+1E55", <<"U+1E54">>>>, <<"U+1E57", <<"U+1E56">>>>, <<"U+1E59", <<"U+1E58">>>>,
    <<"U+1E5B", <<"U+1E5A">>>>, <<"U+1E5D", <<"U+1E5C">>>>, <<"U+1E5F", <<"U+1E5E">>>>,
    <<"U+1E61", <<"U+1E60">>>>, <<"U+1E63", <<"U+1E62">>>>, <<"U+1E65", <<"U+1E64">>>>,
    <<"U+1E67", <<"U+1E66">>>>, <<"U+1E69", <<"U+1E68">>>>, <<"U+1E6B", <<"U+1E6A">>>>,
    <<"U+1E6D", <<"U+1E6C">>>>, <<"U+1E6F", <<"U+1E6E">>>>, <<"U+1E71", <<"U+1E70">>>>,
    <<"U+1E73", <<"U+1E72">>>>, <<"U+1E75", <<"U+1E74">>>>, <<"U+1E77", <<"U+1E76">>>>,
    <<"U+1E79", <<"U+1E78">>>>, <<"U+1E7B", <<"U+1E7A">>>>, <<"U+1E7D", <<"U+1E7C">>>>,
    <<"U+1E7F", <<"U+1E7E">>>>, <<"U+1E81", <<"U+1E80">>>>, <<"U+1E83", <<"U+1E82">>>>,
    <<"U+1E85", <<"U+1E84">>>>, <<"U+1E87", <<"U+1E86">>>>, <<"U+1E89", <<"U+1E88">>>>,
    <<"U+1E8B", <<"U+1E8A">>>>, <<"U+1E8D", <<"U+1E8C">>>>, <<"U+1E8F", <<"U+1E8E">>>>,
    <<"U+1E91", <<"U+1E90">>>>, <<"U+1E93", <<"U+1E92">>>>, <<"U+1E95", <<"U+1E94">>>>,
    <<"U+1E96", <<"H", "U+0331">>>>, <<"U+1E97", <<"T", "U+0308">>>>,
    <<"U+1E98", <<"W", "U+030A">>>>, <<"U+1E99", <<"Y", "U+030A">>>>,
    <<"U+1E9A", <<"A", "U+02BE">>>>, <<"U+1E9B", <<"U+1E60">>>>, <<"U+1EA1", <<"U+1EA0">>>>,
    <<"U+1EA3", <<"U+1EA2">>>>, <<"U+1EA5", <<"U+1EA4">>>>, <<"U+1EA7", <<"U+1EA6">>>>,
    <<"U+1EA9", <<"U+1EA8">>>>, <<"U+1EAB", <<"U+1EAA">>>>, <<"U+1EAD", <<"U+1EAC">>>>,
    <<"U+1EAF", <<"U+1EAE">>>>, <<"U+1EB1", <<"U+1EB0">>>>, <<"U+1EB3", <<"U+1EB2">>>>,
    <<"U+1EB5", <<"U+1EB4">>>>, <<"U+1EB7", <<"U+1EB6">>>>, <<"U+1EB9", <<"U+1EB8">>>>,
    <<"U+1EBB", <<"U+1EBA">>>>, <<"U+1EBD", <<"U+1EBC">>>>, <<"U+1EBF", <<"U+1EBE">>>>,
    <<"U+1EC1", <<"U+1EC0">>>>, <<"U+1EC3", <<"U+1EC2">>>>, <<"U+1EC5", <<"U+1EC4">>>>,
    <<"U+1EC7", <<"U+1EC6">>>>, <<"U+1EC9", <<"U+1EC8">>>>, <<"U+1ECB", <<"U+1ECA">>>>,
    <<"U+1ECD", <<"U+1ECC">>>>, <<"U+1ECF", <<"U+1ECE">>>>, <<"U+1ED1", <<"U+1ED0">>>>,
    <<"U+1ED3", <<"U+1ED2">>>>, <<"U+1ED5", <<"U+1ED4">>>>, <<"U+1ED7", <<"U+1ED6">>>>,
    <<"U+1ED9", <<"U+1ED8">>>>, <<"U+1EDB", <<"U+1EDA">>>>, <<"U+1EDD", <<"U+1EDC">>>>,
    <<"U+1EDF", <<"U+1EDE">>>>, <<"U+1EE1", <<"U+1EE0">>>>, <<"U+1EE3", <<"U+1EE2">>>>,
    <<"U+1EE5", <<"U+1EE4">>>>, <<"U+1EE7", <<"U+1EE6">>>>, <<"U+1EE9", <<"U+1EE8">>>>,
    <<"U+1EEB", <<"U+1EEA">>>>, <<"U+1EED", <<"U+1EEC">>>>, <<"U+1EEF", <<"U+1EEE">>>>,
    <<"U+1EF1", <<"U+1EF0">>>>, <<"U+1EF3", <<"U+1EF2">>>>, <<"U+1EF5", <<"U+1EF4">>>>,
    <<"U+1EF7", <<"U+1EF6">>>>, <<"U+1EF9", <<"U+1EF8">>>>, <<"U+1EFB", <<"U+1EFA">>>>,
    <<"U+1EFD", <<"U+1EFC">>>>, <<"U+1EFF", <<"U+1EFE">>>>, <<"U+1F00", <<"U+1F08">>>>,
    <<"U+1F01", <<"U+1F09">>>>, <<"U+1F02", <<"U+1F0A">>>>, <<"U+1F03", <<"U+1F0B">>>>,
    <<"U+1F04", <<"U+1F0C">>>>, <<"U+1F05", <<"U+1F0D">>>>, <<"U+1F06", <<"U+1F0E">>>>,
    <<"U+1F07", <<"U+1F0F">>>>, <<"U+1F10", <<"U+1F18">>>>, <<"U+1F11", <<"U+1F19">>>>,
    <<"U+1F12", <<"U+1F1A">>>>, <<"U+1F13", <<"U+1F1B">>>>, <<"U+1F14", <<"U+1F1C">>>>,
    <<"U+1F15", <<"U+1F1D">>>>, <<"U+1F20", <<"U+1F28">>>>, <<"U+1F21", <<"U+1F29">>>>,
    <<"U+1F22", <<"U+1F2A">>>>, <<"U+1F23", <<"U+1F2B">>>>, <<"U+1F24", <<"U+1F2C">>>>,
    <<"U+1F25", <<"U+1F2D">>>>, <<"U+1F26", <<"U+1F2E">>>>, <<"U+1F27", <<"U+1F2F">>>>,
    <<"U+1F30", <<"U+1F38">>>>, <<"U+1F31", <<"U+1F39">>>>, <<"U+1F32", <<"U+1F3A">>>>,
    <<"U+1F33", <<"U+1F3B">>>>, <<"U+1F34", <<"U+1F3C">>>>, <<"U+1F35", <<"U+1F3D">>>>,
    <<"U+1F36", <<"U+1F3E">>>>, <<"U+1F37", <<"U+1F3F">>>>, <<"U+1F40", <<"U+1F48">>>>,
    <<"U+1F41", <<"U+1F49">>>>, <<"U+1F42", <<"U+1F4A">>>>, <<"U+1F43", <<"U+1F4B">>>>,
    <<"U+1F44", <<"U+1F4C">>>>, <<"U+1F45", <<"U+1F4D">>>>,
    <<"U+1F50", <<"U+03A5", "U+0313">>>>, <<"U+1F51", <<"U+1F59">>>>,
    <<"U+1F52", <<"U+03A5", "U+0313", "U+0300">>>>, <<"U+1F53", <<"U+1F5B">>>>,
    <<"U+1F54", <<"U+03A5", "U+0313", "U+0301">>>>, <<"U+1F55", <<"U+1F5D">>>>,
    <<"U+1F56", <<"U+03A5", "U+0313", "U+0342">>>>, <<"U+1F57", <<"U+1F5F">>>>,
    <<"U+1F60", <<"U+1F68">>>>, <<"U+1F61", <<"U+1F69">>>>, <<"U+1F62", <<"U+1F6A">>>>,
    <<"U+1F63", <<"U+1F6B">>>>, <<"U+1F64", <<"U+1F6C">>>>, <<"U+1F65", <<"U+1F6D">>>>,
    <<"U+1F66", <<"U+1F6E">>>>, <<"U+1F67", <<"U+1F6F">>>>, <<"U+1F70", <<"U+1FBA">>>>,
    <<"U+1F71", <<"U+1FBB">>>>, <<"U+1F72", <<"U+1FC8">>>>, <<"U+1F73", <<"U+1FC9">>>>,
    <<"U+1F74", <<"U+1FCA">>>>, <<"U+1F75", <<"U+1FCB">>>>, <<"U+1F76", <<"U+1FDA">>>>,
    <<"U+1F77", <<"U+1FDB">>>>, <<"U+1F78", <<"U+1FF8">>>>, <<"U+1F79", <<"U+1FF9">>>>,
    <<"U+1F7A", <<"U+1FEA">>>>, <<"U+1F7B", <<"U+1FEB">>>>, <<"U+1F7C", <<"U+1FFA">>>>,
    <<"U+1F7D", <<"U+1FFB">>>>, <<"U+1F80", <<"U+1F08", "U+0399">>>>,
    <<"U+1F81", <<"U+1F09", "U+0399">>>>, <<"U+1F82", <<"U+1F0A", "U+0399">>>>,
    <<"U+1F83", <<"U+1F0B", "U+0399">>>>, <<"U+1F84", <<"U+1F0C", "U+0399">>>>,
    <<"U+1F85", <<"U+1F0D", "U+0399">>>>, <<"U+1F86", <<"U+1F0E", "U+0399">>>>,
    <<"U+1F87", <<"U+1F0F", "U+0399">>>>, <<"U+1F88", <<"U+1F08", "U+0399">>>>,
    <<"U+1F89", <<"U+1F09", "U+0399">>>>, <<"U+1F8A", <<"U+1F0A", "U+0399">>>>,
    <<"U+1F8B", <<"U+1F0B", "U+0399">>>>, <<"U+1F8C", <<"U+1F0C", "U+0399">>>>,
    <<"U+1F8D", <<"U+1F0D", "U+0399">>>>, <<"U+1F8E", <<"U+1F0E", "U+0399">>>>,
    <<"U+1F8F", <<"U+1F0F", "U+0399">>>>, <<"U+1F90", <<"U+1F28", "U+0399">>>>,
    <<"U+1F91", <<"U+1F29", "U+0399">>>>, <<"U+1F92", <<"U+1F2A", "U+0399">>>>,
    <<"U+1F93", <<"U+1F2B", "U+0399">>>>, <<"U+1F94", <<"U+1F2C", "U+0399">>>>,
    <<"U+1F95", <<"U+1F2D", "U+0399">>>>, <<"U+1F96", <<"U+1F2E", "U+0399">>>>,
    <<"U+1F97", <<"U+1F2F", "U+0399">>>>, <<"U+1F98", <<"U+1F28", "U+0399">>>>,
    <<"U+1F99", <<"U+1F29", "U+0399">>>>, <<"U+1F9A", <<"U+1F2A", "U+0399">>>>,
    <<"U+1F9B", <<"U+1F2B", "U+0399">>>>, <<"U+1F9C", <<"U+1F2C", "U+0399">>>>,
    <<"U+1F9D", <<"U+1F2D", "U+0399">>>>, <<"U+1F9E", <<"U+1F2E", "U+0399">>>>,
    <<"U+1F9F", <<"U+1F2F", "U+0399">>>>, <<"U+1FA0", <<"U+1F68", "U+0399">>>>,
    <<"U+1FA1", <<"U+1F69", "U+0399">>>>, <<"U+1FA2", <<"U+1F6A", "U+0399">>>>,
    <<"U+1FA3", <<"U+1F6B", "U+0399">>>>, <<"U+1FA4", <<"U+1F6C", "U+0399">>>>,
    <<"U+1FA5", <<"U+1F6D", "U+0399">>>>, <<"U+1FA6", <<"U+1F6E", "U+0399">>>>,
    <<"U+1FA7", <<"U+1F6F", "U+0399">>>>, <<"U+1FA8", <<"U+1F68", "U+0399">>>>,
    <<"U+1FA9", <<"U+1F69", "U+0399">>>>, <<"U+1FAA", <<"U+1F6A", "U+0399">>>>,
    <<"U+1FAB", <<"U+1F6B", "U+0399">>>>, <<"U+1FAC", <<"U+1F6C", "U+0399">>>>,
    <<"U+1FAD", <<"U+1F6D", "U+0399">>>>, <<"U+1FAE", <<"U+1F6E", "U+0399">>>>,
    <<"U+1FAF", <<"U+1F6F", "U+0399">>>>, <<"U+1FB0", <<"U+1FB8">>>>,
    <<"U+1FB1", <<"U+1FB9">>>>, <<"U+1FB2", <<"U+1FBA", "U+0399">>>>,
    <<"U+1FB3", <<"U+0391", "U+0399">>>>, <<"U+1FB4", <<"U+0386", "U+0399">>>>,
    <<"U+1FB6", <<"U+0391", "U+0342">>>>, <<"U+1FB7", <<"U+0391", "U+0342", "U+0399">>>>,
    <<"U+1FBC", <<"U+0391", "U+0399">>>>, <<"U+1FBE", <<"U+0399">>>>,
    <<"U+1FC2", <<"U+1FCA", "U+0399">>>>, <<"U+1FC3", <<"U+0397", "U+0399">>>>,
    <<"U+1FC4", <<"U+0389", "U+0399">>>>, <<"U+1FC6", <<"U+0397", "U+0342">>>>,
    <<"U+1FC7", <<"U+0397", "U+0342", "U+0399">>>>, <<"U+1FCC", <<"U+0397", "U+0399">>>>,
    <<"U+1FD0", <<"U+1FD8">>>>, <<"U+1FD1", <<"U+1FD9">>>>,
    <<"U+1FD2", <<"U+0399", "U+0308", "U+0300">>>>,
    <<"U+1FD3", <<"U+0399", "U+0308", "U+0301">>>>, <<"U+1FD6", <<"U+0399", "U+0342">>>>,
    <<"U+1FD7", <<"U+0399", "U+0308", "U+0342">>>>, <<"U+1FE0", <<"U+1FE8">>>>,
    <<"U+1FE1", <<"U+1FE9">>>>, <<"U+1FE2", <<"U+03A5", "U+0308", "U+0300">>>>,
    <<"U+1FE3", <<"U+03A5", "U+0308", "U+0301">>>>, <<"U+1FE4", <<"U+03A1", "U+0313">>>>,
    <<"U+1FE5", <<"U+1FEC">>>>, <<"U+1FE6", <<"U+03A5", "U+0342">>>>,
    <<"U+1FE7", <<"U+03A5", "U+0308", "U+0342">>>>, <<"U+1FF2", <<"U+1FFA", "U+0399">>>>,
    <<"U+1FF3", <<"U+03A9", "U+0399">>>>, <<"U+1FF4", <<"U+038F", "U+0399">>>>,
    <<"U+1FF6", <<"U+03A9", "U+0342">>>>, <<"U+1FF7", <<"U+03A9", "U+0342", "U+0399">>>>,
    <<"U+1FFC", <<"U+03A9", "U+0399">>>>, <<"U+214E", <<"U+2132">>>>,
    <<"U+2170", <<"U+2160">>>>, <<"U+2171", <<"U+2161">>>>, <<"U+2172", <<"U+2162">>>>,
    <<"U+2173", <<"U+2163">>>>, <<"U+2174", <<"U+2164">>>>, <<"U+2175", <<"U+2165">>>>,
    <<"U+2176", <<"U+2166">>>>, <<"U+2177", <<"U+2167">>>>, <<"U+2178", <<"U+2168">>>>,
    <<"U+2179", <<"U+2169">>>>, <<"U+217A", <<"U+216A">>>>, <<"U+217B", <<"U+216B">>>>,
    <<"U+217C", <<"U+216C">>>>, <<"U+217D", <<"U+216D">>>>, <<"U+217E", <<"U+216E">>>>,
    <<"U+217F", <<"U+216F">>>>, <<"U+2184", <<"U+2183">>>>, <<"U+24D0", <<"U+24B6">>>>,
    <<"U+24D1", <<"U+24B7">>>>, <<"U+24D2", <<"U+24B8">>>>, <<"U+24D3", <<"U+24B9">>>>,
    <<"U+24D4", <<"U+24BA">>>>, <<"U+24D5", <<"U+24BB">>>>, <<"U+24D6", <<"U+24BC">>>>,
    <<"U+24D7", <<"U+24BD">>>>, <<"U+24D8", <<"U+24BE">>>>, <<"U+24D9", <<"U+24BF">>>>,
    <<"U+24DA", <<"U+24C0">>>>, <<"U+24DB", <<"U+24C1">>>>, <<"U+24DC", <<"U+24C2">>>>,
    <<"U+24DD", <<"U+24C3">>>>, <<"U+24DE", <<"U+24C4">>>>, <<"U+24DF", <<"U+24C5">>>>,
    <<"U+24E0", <<"U+24C6">>>>, <<"U+24E1", <<"U+24C7">>>>, <<"U+24E2", <<"U+24C8">>>>,
    <<"U+24E3", <<"U+24C9">>>>, <<"U+24E4", <<"U+24CA">>>>, <<"U+24E5", <<"U+24CB">>>>,
    <<"U+24E6", <<"U+24CC">>>>, <<"U+24E7", <<"U+24CD">>>>, <<"U+24E8", <<"U+24CE">>>>,
    <<"U+24E9", <<"U+24CF">>>>, <<"U+2C30", <<"U+2C00">>>>, <<"U+2C31", <<"U+2C01">>>>,
    <<"U+2C32", <<"U+2C02">>>>, <<"U+2C33", <<"U+2C03">>>>, <<"U+2C34", <<"U+2C04">>>>,
    <<"U+2C35", <<"U+2C05">>>>, <<"U+2C36", <<"U+2C06">>>>, <<"U+2C37", <<"U+2C07">>>>,
    <<"U+2C38", <<"U+2C08">>>>, <<"U+2C39", <<"U+2C09">>>>, <<"U+2C3A", <<"U+2C0A">>>>,
    <<"U+2C3B", <<"U+2C0B">>>>, <<"U+2C3C", <<"U+2C0C">>>>, <<"U+2C3D", <<"U+2C0D">>>>,
    <<"U+2C3E", <<"U+2C0E">>>>, <<"U+2C3F", <<"U+2C0F">>>>, <<"U+2C40", <<"U+2C10">>>>,
    <<"U+2C41", <<"U+2C11">>>>, <<"U+2C42", <<"U+2C12">>>>, <<"U+2C43", <<"U+2C13">>>>,
    <<"U+2C44", <<"U+2C14">>>>, <<"U+2C45", <<"U+2C15">>>>, <<"U+2C46", <<"U+2C16">>>>,
    <<"U+2C47", <<"U+2C17">>>>, <<"U+2C48", <<"U+2C18">>>>, <<"U+2C49", <<"U+2C19">>>>,
    <<"U+2C4A", <<"U+2C1A">>>>, <<"U+2C4B", <<"U+2C1B">>>>, <<"U+2C4C", <<"U+2C1C">>>>,
    <<"U+2C4D", <<"U+2C1D">>>>, <<"U+2C4E", <<"U+2C1E">>>>, <<"U+2C4F", <<"U+2C1F">>>>,
    <<"U+2C50", <<"U+2C20">>>>, <<"U+2C51", <<"U+2C21">>>>, <<"U+2C52", <<"U+2C22">>>>,
    <<"U+2C53", <<"U+2C23">>>>, <<"U+2C54", <<"U+2C24">>>>, <<"U+2C55", <<"U+2C25">>>>,
    <<"U+2C56", <<"U+2C26">>>>, <<"U+2C57", <<"U+2C27">>>>, <<"U+2C58", <<"U+2C28">>>>,
    <<"U+2C59", <<"U+2C29">>>>, <<"U+2C5A", <<"U+2C2A">>>>, <<"U+2C5B", <<"U+2C2B">>>>,
    <<"U+2C5C", <<"U+2C2C">>>>, <<"U+2C5D", <<"U+2C2D">>>>, <<"U+2C5E", <<"U+2C2E">>>>,
    <<"U+2C5F", <<"U+2C2F">>>>, <<"U+2C61", <<"U+2C60">>>>, <<"U+2C65", <<"U+023A">>>>,
    <<"U+2C66", <<"U+023E">>>>, <<"U+2C68", <<"U+2C67">>>>, <<"U+2C6A", <<"U+2C69">>>>,
    <<"U+2C6C", <<"U+2C6B">>>>, <<"U+2C73", <<"U+2C72">>>>, <<"U+2C76", <<"U+2C75">>>>,
    <<"U+2C81", <<"U+2C80">>>>, <<"U+2C83", <<"U+2C82">>>>, <<"U+2C85", <<"U+2C84">>>>,
    <<"U+2C87", <<"U+2C86">>>>, <<"U+2C89", <<"U+2C88">>>>, <<"U+2C8B", <<"U+2C8A">>>>,
    <<"U+2C8D", <<"U+2C8C">>>>, <<"U+2C8F", <<"U+2C8E">>>>, <<"U+2C91", <<"U+2C90">>>>,
    <<"U+2C93", <<"U+2C92">>>>, <<"U+2C95", <<"U+2C94">>>>, <<"U+2C97", <<"U+2C96">>>>,
    <<"U+2C99", <<"U+2C98">>>>, <<"U+2C9B", <<"U+2C9A">>>>, <<"U+2C9D", <<"U+2C9C">>>>,
    <<"U+2C9F", <<"U+2C9E">>>>, <<"U+2CA1", <<"U+2CA0">>>>, <<"U+2CA3", <<"U+2CA2">>>>,
    <<"U+2CA5", <<"U+2CA4">>>>, <<"U+2CA7", <<"U+2CA6">>>>, <<"U+2CA9", <<"U+2CA8">>>>,
    <<"U+2CAB", <<"U+2CAA">>>>, <<"U+2CAD", <<"U+2CAC">>>>, <<"U+2CAF", <<"U+2CAE">>>>,
    <<"U+2CB1", <<"U+2CB0">>>>, <<"U+2CB3", <<"U+2CB2">>>>, <<"U+2CB5", <<"U+2CB4">>>>,
    <<"U+2CB7", <<"U+2CB6">>>>, <<"U+2CB9", <<"U+2CB8">>>>, <<"U+2CBB", <<"U+2CBA">>>>,
    <<"U+2CBD", <<"U+2CBC">>>>, <<"U+2CBF", <<"U+2CBE">>>>, <<"U+2CC1", <<"U+2CC0">>>>,
    <<"U+2CC3", <<"U+2CC2">>>>, <<"U+2CC5", <<"U+2CC4">>>>, <<"U+2CC7", <<"U+2CC6">>>>,
    <<"U+2CC9", <<"U+2CC8">>>>, <<"U+2CCB", <<"U+2CCA">>>>, <<"U+2CCD", <<"U+2CCC">>>>,
    <<"U+2CCF", <<"U+2CCE">>>>, <<"U+2CD1", <<"U+2CD0">>>>, <<"U+2CD3", <<"U+2CD2">>>>,
    <<"U+2CD5", <<"U+2CD4">>>>, <<"U+2CD7", <<"U+2CD6">>>>, <<"U+2CD9", <<"U+2CD8">>>>,
    <<"U+2CDB", <<"U+2CDA">>>>, <<"U+2CDD", <<"U+2CDC">>>>, <<"U+2CDF", <<"U+2CDE">>>>,
    <<"U+2CE1", <<"U+2CE0">>>>, <<"U+2CE3", <<"U+2CE2">>>>, <<"U+2CEC", <<"U+2CEB">>>>,
    <<"U+2CEE", <<"U+2CED">>>>, <<"U+2CF3", <<"U+2CF2">>>>, <<"U+2D00", <<"U+10A0">>>>,
    <<"U+2D01", <<"U+10A1">>>>, <<"U+2D02", <<"U+10A2">>>>, <<"U+2D03", <<"U+10A3">>>>,
    <<"U+2D04", <<"U+10A4">>>>, <<"U+2D05", <<"U+10A5">>>>, <<"U+2D06", <<"U+10A6">>>>,
    <<"U+2D07", <<"U+10A7">>>>, <<"U+2D08", <<"U+10A8">>>>, <<"U+2D09", <<"U+10A9">>>>,
    <<"U+2D0A", <<"U+10AA">>>>, <<"U+2D0B", <<"U+10AB">>>>, <<"U+2D0C", <<"U+10AC">>>>,
    <<"U+2D0D", <<"U+10AD">>>>, <<"U+2D0E", <<"U+10AE">>>>, <<"U+2D0F", <<"U+10AF">>>>,
    <<"U+2D10", <<"U+10B0">>>>, <<"U+2D11", <<"U+10B1">>>>, <<"U+2D12", <<"U+10B2">>>>,
    <<"U+2D13", <<"U+10B3">>>>, <<"U+2D14", <<"U+10B4">>>>, <<"U+2D15", <<"U+10B5">>>>,
    <<"U+2D16", <<"U+10B6">>>>, <<"U+2D17", <<"U+10B7">>>>, <<"U+2D18", <<"U+10B8">>>>,
    <<"U+2D19", <<"U+10B9">>>>, <<"U+2D1A", <<"U+10BA">>>>, <<"U+2D1B", <<"U+10BB">>>>,
    <<"U+2D1C", <<"U+10BC">>>>, <<"U+2D1D", <<"U+10BD">>>>, <<"U+2D1E", <<"U+10BE">>>>,
    <<"U+2D1F", <<"U+10BF">>>>, <<"U+2D20", <<"U+10C0">>>>, <<"U+2D21", <<"U+10C1">>>>,
    <<"U+2D22", <<"U+10C2">>>>, <<"U+2D23", <<"U+10C3">>>>, <<"U+2D24", <<"U+10C4">>>>,
    <<"U+2D25", <<"U+10C5">>>>, <<"U+2D27", <<"U+10C7">>>>, <<"U+2D2D", <<"U+10CD">>>>,
    <<"U+A641", <<"U+A640">>>>, <<"U+A643", <<"U+A642">>>>, <<"U+A645", <<"U+A644">>>>,
    <<"U+A647", <<"U+A646">>>>, <<"U+A649", <<"U+A648">>>>, <<"U+A64B", <<"U+A64A">>>>,
    <<"U+A64D", <<"U+A64C">>>>, <<"U+A64F", <<"U+A64E">>>>, <<"U+A651", <<"U+A650">>>>,
    <<"U+A653", <<"U+A652">>>>, <<"U+A655", <<"U+A654">>>>, <<"U+A657", <<"U+A656">>>>,
    <<"U+A659", <<"U+A658">>>>, <<"U+A65B", <<"U+A65A">>>>, <<"U+A65D", <<"U+A65C">>>>,
    <<"U+A65F", <<"U+A65E">>>>, <<"U+A661", <<"U+A660">>>>, <<"U+A663", <<"U+A662">>>>,
    <<"U+A665", <<"U+A664">>>>, <<"U+A667", <<"U+A666">>>>, <<"U+A669", <<"U+A668">>>>,
    <<"U+A66B", <<"U+A66A">>>>, <<"U+A66D", <<"U+A66C">>>>, <<"U+A681", <<"U+A680">>>>,
    <<"U+A683", <<"U+A682">>>>, <<"U+A685", <<"U+A684">>>>, <<"U+A687", <<"U+A686">>>>,
    <<"U+A689", <<"U+A688">>>>, <<"U+A68B", <<"U+A68A">>>>, <<"U+A68D", <<"U+A68C">>>>,
    <<"U+A68F", <<"U+A68E">>>>, <<"U+A691", <<"U+A690">>>>, <<"U+A693", <<"U+A692">>>>,
    <<"U+A695", <<"U+A694">>>>, <<"U+A697", <<"U+A696">>>>, <<"U+A699", <<"U+A698">>>>,
    <<"U+A69B", <<"U+A69A">>>>, <<"U+A723", <<"U+A722">>>>, <<"U+A725", <<"U+A724">>>>,
    <<"U+A727", <<"U+A726">>>>, <<"U+A729", <<"U+A728">>>>, <<"U+A72B", <<"U+A72A">>>>,
    <<"U+A72D", <<"U+A72C">>>>, <<"U+A72F", <<"U+A72E">>>>, <<"U+A733", <<"U+A732">>>>,
    <<"U+A735", <<"U+A734">>>>, <<"U+A737", <<"U+A736">>>>, <<"U+A739", <<"U+A738">>>>,
    <<"U+A73B", <<"U+A73A">>>>, <<"U+A73D", <<"U+A73C">>>>, <<"U+A73F", <<"U+A73E">>>>,
    <<"U+A741", <<"U+A740">>>>, <<"U+A743", <<"U+A742">>>>, <<"U+A745", <<"U+A744">>>>,
    <<"U+A747", <<"U+A746">>>>, <<"U+A749", <<"U+A748">>>>, <<"U+A74B", <<"U+A74A">>>>,
    <<"U+A74D", <<"U+A74C">>>>, <<"U+A74F", <<"U+A74E">>>>, <<"U+A751", <<"U+A750">>>>,
    <<"U+A753", <<"U+A752">>>>, <<"U+A755", <<"U+A754">>>>, <<"U+A757", <<"U+A756">>>>,
    <<"U+A759", <<"U+A758">>>>, <<"U+A75B", <<"U+A75A">>>>, <<"U+A75D", <<"U+A75C">>>>,
    <<"U+A75F", <<"U+A75E">>>>, <<"U+A761", <<"U+A760">>>>, <<"U+A763", <<"U+A762">>>>,
    <<"U+A765", <<"U+A764">>>>, <<"U+A767", <<"U+A766">>>>, <<"U+A769", <<"U+A768">>>>,
    <<"U+A76B", <<"U+A76A">>>>, <<"U+A76D", <<"U+A76C">>>>, <<"U+A76F", <<"U+A76E">>>>,
    <<"U+A77A", <<"U+A779">>>>, <<"U+A77C", <<"U+A77B">>>>, <<"U+A77F", <<"U+A77E">>>>,
    <<"U+A781", <<"U+A780">>>>, <<"U+A783", <<"U+A782">>>>, <<"U+A785", <<"U+A784">>>>,
    <<"U+A787", <<"U+A786">>>>, <<"U+A78C", <<"U+A78B">>>>, <<"U+A791", <<"U+A790">>>>,
    <<"U+A793", <<"U+A792">>>>, <<"U+A794", <<"U+A7C4">>>>, <<"U+A797", <<"U+A796">>>>,
    <<"U+A799", <<"U+A798">>>>, <<"U+A79B", <<"U+A79A">>>>, <<"U+A79D", <<"U+A79C">>>>,
    <<"U+A79F", <<"U+A79E">>>>, <<"U+A7A1", <<"U+A7A0">>>>, <<"U+A7A3", <<"U+A7A2">>>>,
    <<"U+A7A5", <<"U+A7A4">>>>, <<"U+A7A7", <<"U+A7A6">>>>, <<"U+A7A9", <<"U+A7A8">>>>,
    <<"U+A7B5", <<"U+A7B4">>>>, <<"U+A7B7", <<"U+A7B6">>>>, <<"U+A7B9", <<"U+A7B8">>>>,
    <<"U+A7BB", <<"U+A7BA">>>>, <<"U+A7BD", <<"U+A7BC">>>>, <<"U+A7BF", <<"U+A7BE">>>>,
    <<"U+A7C1", <<"U+A7C0">>>>, <<"U+A7C3", <<"U+A7C2">>>>, <<"U+A7C8", <<"U+A7C7">>>>,
    <<"U+A7CA", <<"U+A7C9">>>>, <<"U+A7D1", <<"U+A7D0">>>>, <<"U+A7D7", <<"U+A7D6">>>>,
    <<"U+A7D9", <<"U+A7D8">>>>, <<"U+A7F6", <<"U+A7F5">>>>, <<"U+AB53", <<"U+A7B3">>>>,
    <<"U+AB70", <<"U+13A0">>>>, <<"U+AB71", <<"U+13A1">>>>, <<"U+AB72", <<"U+13A2">>>>,
    <<"U+AB73", <<"U+13A3">>>>, <<"U+AB74", <<"U+13A4">>>>, <<"U+AB75", <<"U+13A5">>>>,
    <<"U+AB76", <<"U+13A6">>>>, <<"U+AB77", <<"U+13A7">>>>, <<"U+AB78", <<"U+13A8">>>>,
    <<"U+AB79", <<"U+13A9">>>>, <<"U+AB7A", <<"U+13AA">>>>, <<"U+AB7B", <<"U+13AB">>>>,
    <<"U+AB7C", <<"U+13AC">>>>, <<"U+AB7D", <<"U+13AD">>>>, <<"U+AB7E", <<"U+13AE">>>>,
    <<"U+AB7F", <<"U+13AF">>>>, <<"U+AB80", <<"U+13B0">>>>, <<"U+AB81", <<"U+13B1">>>>,
    <<"U+AB82", <<"U+13B2">>>>, <<"U+AB83", <<"U+13B3">>>>, <<"U+AB84", <<"U+13B4">>>>,
    <<"U+AB85", <<"U+13B5">>>>, <<"U+AB86", <<"U+13B6">>>>, <<"U+AB87", <<"U+13B7">>>>,
    <<"U+AB88", <<"U+13B8">>>>, <<"U+AB89", <<"U+13B9">>>>, <<"U+AB8A", <<"U+13BA">>>>,
    <<"U+AB8B", <<"U+13BB">>>>, <<"U+AB8C", <<"U+13BC">>>>, <<"U+AB8D", <<"U+13BD">>>>,
    <<"U+AB8E", <<"U+13BE">>>>, <<"U+AB8F", <<"U+13BF">>>>, <<"U+AB90", <<"U+13C0">>>>,
    <<"U+AB91", <<"U+13C1">>>>, <<"U+AB92", <<"U+13C2">>>>, <<"U+AB93", <<"U+13C3">>>>,
    <<"U+AB94", <<"U+13C4">>>>, <<"U+AB95", <<"U+13C5">>>>, <<"U+AB96", <<"U+13C6">>>>,
    <<"U+AB97", <<"U+13C7">>>>, <<"U+AB98", <<"U+13C8">>>>, <<"U+AB99", <<"U+13C9">>>>,
    <<"U+AB9A", <<"U+13CA">>>>, <<"U+AB9B", <<"U+13CB">>>>, <<"U+AB9C", <<"U+13CC">>>>,
    <<"U+AB9D", <<"U+13CD">>>>, <<"U+AB9E", <<"U+13CE">>>>, <<"U+AB9F", <<"U+13CF">>>>,
    <<"U+ABA0", <<"U+13D0">>>>, <<"U+ABA1", <<"U+13D1">>>>, <<"U+ABA2", <<"U+13D2">>>>,
    <<"U+ABA3", <<"U+13D3">>>>, <<"U+ABA4", <<"U+13D4">>>>, <<"U+ABA5", <<"U+13D5">>>>,
    <<"U+ABA6", <<"U+13D6">>>>, <<"U+ABA7", <<"U+13D7">>>>, <<"U+ABA8", <<"U+13D8">>>>,
    <<"U+ABA9", <<"U+13D9">>>>, <<"U+ABAA", <<"U+13DA">>>>, <<"U+ABAB", <<"U+13DB">>>>,
    <<"U+ABAC", <<"U+13DC">>>>, <<"U+ABAD", <<"U+13DD">>>>, <<"U+ABAE", <<"U+13DE">>>>,
    <<"U+ABAF", <<"U+13DF">>>>, <<"U+ABB0", <<"U+13E0">>>>, <<"U+ABB1", <<"U+13E1">>>>,
    <<"U+ABB2", <<"U+13E2">>>>, <<"U+ABB3", <<"U+13E3">>>>, <<"U+ABB4", <<"U+13E4">>>>,
    <<"U+ABB5", <<"U+13E5">>>>, <<"U+ABB6", <<"U+13E6">>>>, <<"U+ABB7", <<"U+13E7">>>>,
    <<"U+ABB8", <<"U+13E8">>>>, <<"U+ABB9", <<"U+13E9">>>>, <<"U+ABBA", <<"U+13EA">>>>,
    <<"U+ABBB", <<"U+13EB">>>>, <<"U+ABBC", <<"U+13EC">>>>, <<"U+ABBD", <<"U+13ED">>>>,
    <<"U+ABBE", <<"U+13EE">>>>, <<"U+ABBF", <<"U+13EF">>>>, <<"U+FB00", <<"F", "F">>>>,
    <<"U+FB01", <<"F", "I">>>>, <<"U+FB02", <<"F", "L">>>>, <<"U+FB03", <<"F", "F", "I">>>>,
    <<"U+FB04", <<"F", "F", "L">>>>, <<"U+FB05", <<"S", "T">>>>, <<"U+FB06", <<"S", "T">>>>,
    <<"U+FB13", <<"U+0544", "U+0546">>>>, <<"U+FB14", <<"U+0544", "U+0535">>>>,
    <<"U+FB15", <<"U+0544", "U+053B">>>>, <<"U+FB16", <<"U+054E", "U+0546">>>>,
    <<"U+FB17", <<"U+0544", "U+053D">>>>, <<"U+FF41", <<"U+FF21">>>>,
    <<"U+FF42", <<"U+FF22">>>>, <<"U+FF43", <<"U+FF23">>>>, <<"U+FF44", <<"U+FF24">>>>,
    <<"U+FF45", <<"U+FF25">>>>, <<"U+FF46", <<"U+FF26">>>>, <<"U+FF47", <<"U+FF27">>>>,
    <<"U+FF48", <<"U+FF28">>>>, <<"U+FF49", <<"U+FF29">>>>, <<"U+FF4A", <<"U+FF2A">>>>,
    <<"U+FF4B", <<"U+FF2B">>>>, <<"U+FF4C", <<"U+FF2C">>>>, <<"U+FF4D", <<"U+FF2D">>>>,
    <<"U+FF4E", <<"U+FF2E">>>>, <<"U+FF4F", <<"U+FF2F">>>>, <<"U+FF50", <<"U+FF30">>>>,
    <<"U+FF51", <<"U+FF31">>>>, <<"U+FF52", <<"U+FF32">>>>, <<"U+FF53", <<"U+FF33">>>>,
    <<"U+FF54", <<"U+FF34">>>>, <<"U+FF55", <<"U+FF35">>>>, <<"U+FF56", <<"U+FF36">>>>,
    <<"U+FF57", <<"U+FF37">>>>, <<"U+FF58", <<"U+FF38">>>>, <<"U+FF59", <<"U+FF39">>>>,
    <<"U+FF5A", <<"U+FF3A">>>>, <<"U+10428", <<"U+10400">>>>, <<"U+10429", <<"U+10401">>>>,
    <<"U+1042A", <<"U+10402">>>>, <<"U+1042B", <<"U+10403">>>>, <<"U+1042C", <<"U+10404">>>>,
    <<"U+1042D", <<"U+10405">>>>, <<"U+1042E", <<"U+10406">>>>, <<"U+1042F", <<"U+10407">>>>,
    <<"U+10430", <<"U+10408">>>>, <<"U+10431", <<"U+10409">>>>, <<"U+10432", <<"U+1040A">>>>,
    <<"U+10433", <<"U+1040B">>>>, <<"U+10434", <<"U+1040C">>>>, <<"U+10435", <<"U+1040D">>>>,
    <<"U+10436", <<"U+1040E">>>>, <<"U+10437", <<"U+1040F">>>>, <<"U+10438", <<"U+10410">>>>,
    <<"U+10439", <<"U+10411">>>>, <<"U+1043A", <<"U+10412">>>>, <<"U+1043B", <<"U+10413">>>>,
    <<"U+1043C", <<"U+10414">>>>, <<"U+1043D", <<"U+10415">>>>, <<"U+1043E", <<"U+10416">>>>,
    <<"U+1043F", <<"U+10417">>>>, <<"U+10440", <<"U+10418">>>>, <<"U+10441", <<"U+10419">>>>,
    <<"U+10442", <<"U+1041A">>>>, <<"U+10443", <<"U+1041B">>>>, <<"U+10444", <<"U+1041C">>>>,
    <<"U+10445", <<"U+1041D">>>>, <<"U+10446", <<"U+1041E">>>>, <<"U+10447", <<"U+1041F">>>>,
    <<"U+10448", <<"U+10420">>>>, <<"U+10449", <<"U+10421">>>>, <<"U+1044A", <<"U+10422">>>>,
    <<"U+1044B", <<"U+10423">>>>, <<"U+1044C", <<"U+10424">>>>, <<"U+1044D", <<"U+10425">>>>,
    <<"U+1044E", <<"U+10426">>>>, <<"U+1044F", <<"U+10427">>>>, <<"U+104D8", <<"U+104B0">>>>,
    <<"U+104D9", <<"U+104B1">>>>, <<"U+104DA", <<"U+104B2">>>>, <<"U+104DB", <<"U+104B3">>>>,
    <<"U+104DC", <<"U+104B4">>>>, <<"U+104DD", <<"U+104B5">>>>, <<"U+104DE", <<"U+104B6">>>>,
    <<"U+104DF", <<"U+104B7">>>>, <<"U+104E0", <<"U+104B8">>>>, <<"U+104E1", <<"U+104B9">>>>,
    <<"U+104E2", <<"U+104BA">>>>, <<"U+104E3", <<"U+104BB">>>>, <<"U+104E4", <<"U+104BC">>>>,
    <<"U+104E5", <<"U+104BD">>>>, <<"U+104E6", <<"U+104BE">>>>, <<"U+104E7", <<"U+104BF">>>>,
    <<"U+104E8", <<"U+104C0">>>>, <<"U+104E9", <<"U+104C1">>>>, <<"U+104EA", <<"U+104C2">>>>,
    <<"U+104EB", <<"U+104C3">>>>, <<"U+104EC", <<"U+104C4">>>>, <<"U+104ED", <<"U+104C5">>>>,
    <<"U+104EE", <<"U+104C6">>>>, <<"U+104EF", <<"U+104C7">>>>, <<"U+104F0", <<"U+104C8">>>>,
    <<"U+104F1", <<"U+104C9">>>>, <<"U+104F2", <<"U+104CA">>>>, <<"U+104F3", <<"U+104CB">>>>,
    <<"U+104F4", <<"U+104CC">>>>, <<"U+104F5", <<"U+104CD">>>>, <<"U+104F6", <<"U+104CE">>>>,
    <<"U+104F7", <<"U+104CF">>>>, <<"U+104F8", <<"U+104D0">>>>, <<"U+104F9", <<"U+104D1">>>>,
    <<"U+104FA", <<"U+104D2">>>>, <<"U+104FB", <<"U+104D3">>>>, <<"U+10597", <<"U+10570">>>>,
    <<"U+10598", <<"U+10571">>>>, <<"U+10599", <<"U+10572">>>>, <<"U+1059A", <<"U+10573">>>>,
    <<"U+1059B", <<"U+10574">>>>, <<"U+1059C", <<"U+10575">>>>, <<"U+1059D", <<"U+10576">>>>,
    <<"U+1059E", <<"U+10577">>>>, <<"U+1059F", <<"U+10578">>>>, <<"U+105A0", <<"U+10579">>>>,
    <<"U+105A1", <<"U+1057A">>>>, <<"U+105A3", <<"U+1057C">>>>, <<"U+105A4", <<"U+1057D">>>>,
    <<"U+105A5", <<"U+1057E">>>>, <<"U+105A6", <<"U+1057F">>>>, <<"U+105A7", <<"U+10580">>>>,
    <<"U+105A8", <<"U+10581">>>>, <<"U+105A9", <<"U+10582">>>>, <<"U+105AA", <<"U+10583">>>>,
    <<"U+105AB", <<"U+10584">>>>, <<"U+105AC", <<"U+10585">>>>, <<"U+105AD", <<"U+10586">>>>,
    <<"U+105AE", <<"U+10587">>>>, <<"U+105AF", <<"U+10588">>>>, <<"U+105B0", <<"U+10589">>>>,
    <<"U+105B1", <<"U+1058A">>>>, <<"U+105B3", <<"U+1058C">>>>, <<"U+105B4", <<"U+1058D">>>>,
    <<"U+105B5", <<"U+1058E">>>>, <<"U+105B6", <<"U+1058F">>>>, <<"U+105B7", <<"U+10590">>>>,
    <<"U+105B8", <<"U+10591">>>>, <<"U+105B9", <<"U+10592">>>>, <<"U+105BB", <<"U+10594">>>>,
    <<"U+105BC", <<"U+10595">>>>, <<"U+10CC0", <<"U+10C80">>>>, <<"U+10CC1", <<"U+10C81">>>>,
    <<"U+10CC2", <<"U+10C82">>>>, <<"U+10CC3", <<"U+10C83">>>>, <<"U+10CC4", <<"U+10C84">>>>,
    <<"U+10CC5", <<"U+10C85">>>>, <<"U+10CC6", <<"U+10C86">>>>, <<"U+10CC7", <<"U+10C87">>>>,
    <<"U+10CC8", <<"U+10C88">>>>, <<"U+10CC9", <<"U+10C89">>>>, <<"U+10CCA", <<"U+10C8A">>>>,
    <<"U+10CCB", <<"U+10C8B">>>>, <<"U+10CCC", <<"U+10C8C">>>>, <<"U+10CCD", <<"U+10C8D">>>>,
    <<"U+10CCE", <<"U+10C8E">>>>, <<"U+10CCF", <<"U+10C8F">>>>, <<"U+10CD0", <<"U+10C90">>>>,
    <<"U+10CD1", <<"U+10C91">>>>, <<"U+10CD2", <<"U+10C92">>>>, <<"U+10CD3", <<"U+10C93">>>>,
    <<"U+10CD4", <<"U+10C94">>>>, <<"U+10CD5", <<"U+10C95">>>>, <<"U+10CD6", <<"U+10C96">>>>,
    <<"U+10CD7", <<"U+10C97">>>>, <<"U+10CD8", <<"U+10C98">>>>, <<"U+10CD9", <<"U+10C99">>>>,
    <<"U+10CDA", <<"U+10C9A">>>>, <<"U+10CDB", <<"U+10C9B">>>>, <<"U+10CDC", <<"U+10C9C">>>>,
    <<"U+10CDD", <<"U+10C9D">>>>, <<"U+10CDE", <<"U+10C9E">>>>, <<"U+10CDF", <<"U+10C9F">>>>,
    <<"U+10CE0", <<"U+10CA0">>>>, <<"U+10CE1", <<"U+10CA1">>>>, <<"U+10CE2", <<"U+10CA2">>>>,
    <<"U+10CE3", <<"U+10CA3">>>>, <<"U+10CE4", <<"U+10CA4">>>>, <<"U+10CE5", <<"U+10CA5">>>>,
    <<"U+10CE6", <<"U+10CA6">>>>, <<"U+10CE7", <<"U+10CA7">>>>, <<"U+10CE8", <<"U+10CA8">>>>,
    <<"U+10CE9", <<"U+10CA9">>>>, <<"U+10CEA", <<"U+10CAA">>>>, <<"U+10CEB", <<"U+10CAB">>>>,
    <<"U+10CEC", <<"U+10CAC">>>>, <<"U+10CED", <<"U+10CAD">>>>, <<"U+10CEE", <<"U+10CAE">>>>,
    <<"U+10CEF", <<"U+10CAF">>>>, <<"U+10CF0", <<"U+10CB0">>>>, <<"U+10CF1", <<"U+10CB1">>>>,
    <<"U+10CF2", <<"U+10CB2">>>>, <<"U+118C0", <<"U+118A0">>>>, <<"U+118C1", <<"U+118A1">>>>,
    <<"U+118C2", <<"U+118A2">>>>, <<"U+118C3", <<"U+118A3">>>>, <<"U+118C4", <<"U+118A4">>>>,
    <<"U+118C5", <<"U+118A5">>>>, <<"U+118C6", <<"U+118A6">>>>, <<"U+118C7", <<"U+118A7">>>>,
    <<"U+118C8", <<"U+118A8">>>>, <<"U+118C9", <<"U+118A9">>>>, <<"U+118CA", <<"U+118AA">>>>,
    <<"U+118CB", <<"U+118AB">>>>, <<"U+118CC", <<"U+118AC">>>>, <<"U+118CD", <<"U+118AD">>>>,
    <<"U+118CE", <<"U+118AE">>>>, <<"U+118CF", <<"U+118AF">>>>, <<"U+118D0", <<"U+118B0">>>>,
    <<"U+118D1", <<"U+118B1">>>>, <<"U+118D2", <<"U+118B2">>>>, <<"U+118D3", <<"U+118B3">>>>,
    <<"U+118D4", <<"U+118B4">>>>, <<"U+118D5", <<"U+118B5">>>>, <<"U+118D6", <<"U+118B6">>>>,
    <<"U+118D7", <<"U+118B7">>>>, <<"U+118D8", <<"U+118B8">>>>, <<"U+118D9", <<"U+118B9">>>>,
    <<"U+118DA", <<"U+118BA">>>>, <<"U+118DB", <<"U+118BB">>>>, <<"U+118DC", <<"U+118BC">>>>,
    <<"U+118DD", <<"U+118BD">>>>, <<"U+118DE", <<"U+118BE">>>>, <<"U+118DF", <<"U+118BF">>>>,
    <<"U+16E60", <<"U+16E40">>>>, <<"U+16E61", <<"U+16E41">>>>, <<"U+16E62", <<"U+16E42">>>>,
    <<"U+16E63", <<"U+16E43">>>>, <<"U+16E64", <<"U+16E44">>>>, <<"U+16E65", <<"U+16E45">>>>,
    <<"U+16E66", <<"U+16E46">>>>, <<"U+16E67", <<"U+16E47">>>>, <<"U+16E68", <<"U+16E48">>>>,
    <<"U+16E69", <<"U+16E49">>>>, <<"U+16E6A", <<"U+16E4A">>>>, <<"U+16E6B", <<"U+16E4B">>>>,
    <<"U+16E6C", <<"U+16E4C">>>>, <<"U+16E6D", <<"U+16E4D">>>>, <<"U+16E6E", <<"U+16E4E">>>>,
    <<"U+16E6F", <<"U+16E4F">>>>, <<"U+16E70", <<"U+16E50">>>>, <<"U+16E71", <<"U+16E51">>>>,
    <<"U+16E72", <<"U+16E52">>>>, <<"U+16E73", <<"U+16E53">>>>, <<"U+16E74", <<"U+16E54">>>>,
    <<"U+16E75", <<"U+16E55">>>>, <<"U+16E76", <<"U+16E56">>>>, <<"U+16E77", <<"U+16E57">>>>,
    <<"U+16E78", <<"U+16E58">>>>, <<"U+16E79", <<"U+16E59">>>>, <<"U+16E7A", <<"U+16E5A">>>>,
    <<"U+16E7B", <<"U+16E5B">>>>, <<"U+16E7C", <<"U+16E5C">>>>, <<"U+16E7D", <<"U+16E5D">>>>,
    <<"U+16E7E", <<"U+16E5E">>>>, <<"U+16E7F", <<"U+16E5F">>>>, <<"U+1E922", <<"U+1E900">>>>,
    <<"U+1E923", <<"U+1E901">>>>, <<"U+1E924", <<"U+1E902">>>>, <<"U+1E925", <<"U+1E903">>>>,
    <<"U+1E926", <<"U+1E904">>>>, <<"U+1E927", <<"U+1E905">>>>, <<"U+1E928", <<"U+1E906">>>>,
    <<"U+1E929", <<"U+1E907">>>>, <<"U+1E92A", <<"U+1E908">>>>, <<"U+1E92B", <<"U+1E909">>>>,
    <<"U+1E92C", <<"U+1E90A">>>>, <<"U+1E92D", <<"U+1E90B">>>>, <<"U+1E92E", <<"U+1E90C">>>>,
    <<"U+1E92F", <<"U+1E90D">>>>, <<"U+1E930", <<"U+1E90E">>>>, <<"U+1E931", <<"U+1E90F">>>>,
    <<"U+1E932", <<"U+1E910">>>>, <<"U+1E933", <<"U+1E911">>>>, <<"U+1E934", <<"U+1E912">>>>,
    <<"U+1E935", <<"U+1E913">>>>, <<"U+1E936", <<"U+1E914">>>>, <<"U+1E937", <<"U+1E915">>>>,
    <<"U+1E938", <<"U+1E916">>>>, <<"U+1E939", <<"U+1E917">>>>, <<"U+1E93A", <<"U+1E918">>>>,
    <<"U+1E93B", <<"U+1E919">>>>, <<"U+1E93C", <<"U+1E91A">>>>, <<"U+1E93D", <<"U+1E91B">>>>,
    <<"U+1E93E", <<"U+1E91C">>>>, <<"U+1E93F", <<"U+1E91D">>>>, <<"U+1E940", <<"U+1E91E">>>>,
    <<"U+1E941", <<"U+1E91F">>>>, <<"U+1E942", <<"U+1E920">>>>, <<"U+1E943", <<"U+1E921">>>>
    >>

\* SPECIAL_UPPER as a function of the character.
SpecialUpper ==
    LET at == [i \in DOMAIN SPECIAL_UPPER |-> SPECIAL_UPPER[i][1]]
    IN  [c \in {at[i] : i \in DOMAIN at} |->
            SPECIAL_UPPER[CHOOSE i \in DOMAIN at : at[i] = c][2]]

\* str.upper() of one character: a text of one character or more.
UpperChar(c) ==
    IF \E i \in 1..Len(LOWER) : LOWER[i] = c
    THEN <<UPPER[CHOOSE i \in 1..Len(LOWER) : LOWER[i] = c]>>
    ELSE IF c \in DOMAIN SpecialUpper THEN SpecialUpper[c]
    ELSE <<c>>

\* A str.upper() that leaves the text as it is: the scan would be case-sensitive.
UpperOmitted(s) == s

\* ''.join(parts)
RECURSIVE Concat(_)
Concat(parts) ==
    IF parts = << >> THEN << >> ELSE Head(parts) \o Concat(Tail(parts))

\* str.upper(): the upper-case texts of the characters, in order.
Upper(s) == Concat([i \in 1..Len(s) |-> UpperChar(s[i])])

\* str.find(sub) + 1: the position of the first occurrence of sub in s, 0 when none.
Find(s, sub) ==
    LET hits == {i \in 1..(Len(s) - Len(sub) + 1) : SubSeq(s, i, i + Len(sub) - 1) = sub}
    IN  IF hits = {} THEN 0 ELSE Min(hits)

\* sub in s
Contains(s, sub) == Find(s, sub) # 0

\* s.startswith(p)
StartsWith(s, p) == Len(s) >= Len(p) /\ SubSeq(s, 1, Len(p)) = p

\* s.strip()
Strip(s) ==
    LET keep == {i \in 1..Len(s) : s[i] \notin WHITESPACE}
    IN  IF keep = {} THEN << >> ELSE SubSeq(s, Min(keep), Max(keep))

\* s.split(sep)[1], for an s that holds sep: the text between the first occurrence of
\* sep and the next one (or the end of s).
SplitSecond(s, sep) ==
    LET i == Find(s, sep)
        rest == SubSeq(s, i + Len(sep), Len(s))
        j == Find(rest, sep)
    IN  IF j = 0 THEN rest ELSE SubSeq(rest, 1, j - 1)

\* str(n) of a natural number
RECURSIVE ToStr(_)
ToStr(n) ==
    IF n < 10 THEN <<DIGITS[n + 1]>>
    ELSE ToStr(n \div 10) \o <<DIGITS[(n % 10) + 1]>>

---------------------------------------------------------------------------
\* Literal texts of SQL_Query/src/core/workflow.py.

\* 'Failed to retrieve database schema: '
MSG_SCHEMA_FAILED ==
    <<"F","a","i","l","e","d"," ","t","o"," ","r","e","t","r","i","e","v","e"," ","d","a","t",
      "a","b","a","s","e"," ","s","c","h","e","m","a",":"," ">>

\* 'Error generating SQL: '
MSG_GENERATION_FAILED ==
    <<"E","r","r","o","r"," ","g","e","n","e","r","a","t","i","n","g"," ","S","Q","L",":"," ">>

\* 'Query contains potentially destructive operation: '
MSG_DESTRUCTIVE ==
    <<"Q","u","e","r","y"," ","c","o","n","t","a","i","n","s"," ","p","o","t","e","n","t","i",
      "a","l","l","y"," ","d","e","s","t","r","u","c","t","i","v","e"," ","o","p","e","r","a",
      "t","i","o","n",":"," ">>

\* 'SQL syntax error: '
MSG_SYNTAX_ERROR ==
    <<"S","Q","L"," ","s","y","n","t","a","x"," ","e","r","r","o","r",":"," ">>

\* 'Validation error: '
MSG_VALIDATION_ERROR ==
    <<"V","a","l","i","d","a","t","i","o","n"," ","e","r","r","o","r",":"," ">>

\* 'Database execution error: '
MSG_DB_EXECUTION_ERROR ==
    <<"D","a","t","a","b","a","s","e"," ","e","x","e","c","u","t","i","o","n"," ","e","r","r",
      "o","r",":"," ">>

\* 'Query execution error: '
MSG_QUERY_EXECUTION_ERROR ==
    <<"Q","u","e","r","y"," ","e","x","e","c","u","t","i","o","n"," ","e","r","r","o","r",":",
      " ">>

\* "I couldn't execute your query because: "
MSG_COULD_NOT_EXECUTE ==
    <<"I"," ","c","o","u","l","d","n","'","t"," ","e","x","e","c","u","t","e"," ","y","o","u",
      "r"," ","q","u","e","r","y"," ","b","e","c","a","u","s","e",":"," ">>

\* '. Please rephrase your question.'
MSG_REPHRASE ==
    <<"."," ","P","l","e","a","s","e"," ","r","e","p","h","r","a","s","e"," ","y","o","u","r",
      " ","q","u","e","s","t","i","o","n",".">>

\* 'I encountered an error: '
MSG_ENCOUNTERED ==
    <<"I"," ","e","n","c","o","u","n","t","e","r","e","d"," ","a","n"," ","e","r","r","o","r",
      ":"," ">>

\* '. Please try again with a different question.'
MSG_TRY_AGAIN ==
    <<"."," ","P","l","e","a","s","e"," ","t","r","y"," ","a","g","a","i","n"," ","w","i","t",
      "h"," ","a"," ","d","i","f","f","e","r","e","n","t"," ","q","u","e","s","t","i","o","n",
      ".">>

\* 'I found '
MSG_FOUND ==
    <<"I"," ","f","o","u","n","d"," ">>

\* " results for your question, but couldn't generate a detailed explanation. Error: "
MSG_NO_EXPLANATION ==
    <<" ","r","e","s","u","l","t","s"," ","f","o","r"," ","y","o","u","r"," ","q","u","e","s",
      "t","i","o","n",","," ","b","u","t"," ","c","o","u","l","d","n","'","t"," ","g","e","n",
      "e","r","a","t","e"," ","a"," ","d","e","t","a","i","l","e","d"," ","e","x","p","l","a",
      "n","a","t","i","o","n","."," ","E","r","r","o","r",":"," ">>

\* The grave accent
BACKTICK == "U+0060"

\* The three grave accents that open and close a code block in the model's answer.
FENCE ==
    <<BACKTICK, BACKTICK, BACKTICK>>

\* 'sql'
SQL_TAG ==
    <<"s","q","l">>


---------------------------------------------------------------------------
\* query_validator_node's denylist, in the order the code scans it.

\* 'DROP'
KW_DROP ==
    <<"D","R","O","P">>

\* 'DELETE'
KW_DELETE ==
    <<"D","E","L","E","T","E">>

\* 'UPDATE'
KW_UPDATE ==
    <<"U","P","D","A","T","E">>

\* 'INSERT'
KW_INSERT ==
    <<"I","N","S","E","R","T">>

\* 'ALTER'
KW_ALTER ==
    <<"A","L","T","E","R">>

\* 'CREATE'
KW_CREATE ==
    <<"C","R","E","A","T","E">>

\* 'TRUNCATE'
KW_TRUNCATE ==
    <<"T","R","U","N","C","A","T","E">>

\* 'REPLACE'
KW_REPLACE ==
    <<"R","E","P","L","A","C","E">>

\* 'PRAGMA'
KW_PRAGMA ==
    <<"P","R","A","G","M","A">>

\* 'ATTACH'
KW_ATTACH ==
    <<"A","T","T","A","C","H">>

\* 'DETACH'
KW_DETACH ==
    <<"D","E","T","A","C","H">>


destructive_keywords ==
    <<KW_DROP, KW_DELETE, KW_UPDATE, KW_INSERT, KW_ALTER, KW_CREATE,
      KW_TRUNCATE, KW_REPLACE, KW_PRAGMA, KW_ATTACH, KW_DETACH>>

---------------------------------------------------------------------------
\* str(e) of the exceptions the external services raise: one representative text
\* per failure (what SQLite and the model client print for it).

\* 'unable to open database file'
ERR_OPEN ==
    <<"u","n","a","b","l","e"," ","t","o"," ","o","p","e","n"," ","d","a","t","a","b","a","s",
      "e"," ","f","i","l","e">>

\* 'incomplete input'
ERR_SYNTAX ==
    <<"i","n","c","o","m","p","l","e","t","e"," ","i","n","p","u","t">>

\* 'no such table: orders'
ERR_EXEC ==
    <<"n","o"," ","s","u","c","h"," ","t","a","b","l","e",":"," ","o","r","d","e","r","s">>

\* 'surrogates not allowed'
ERR_OTHER ==
    <<"s","u","r","r","o","g","a","t","e","s"," ","n","o","t"," ","a","l","l","o","w","e","d">>

\* '503 service unavailable'
ERR_LLM ==
    <<"5","0","3"," ","s","e","r","v","i","c","e"," ","u","n","a","v","a","i","l","a","b","l",
      "e">>

\* 'Database Schema:'
SCHEMA_TEXT ==
    <<"D","a","t","a","b","a","s","e"," ","S","c","h","e","m","a",":">>

\* 'destructive operation'

---------------------------------------------------------------------------
\* The SQL pipeline: SQL_Query/src/core/workflow.py.

\* One call to an external service: which node made it, which call, whether it
\* returned (ok) or raised, and the SQL text handed to it (None when there is none).
Event(stage, op, ok, arg) == [stage |-> stage, op |-> op, ok |-> ok, arg |-> arg]

\* What one invocation of a node comes to: the record it leaves, whether an
\* exception left the node, and the external calls it made.
Result(s, raised, events) == [state |-> s, raised |-> raised, events |-> events]

\* SQLWorkflowState(...) of app.py: the record a run starts from.
initial_state(question) ==
    [user_question        |-> question,
     generated_sql        |-> None,
     sql_validation_error |-> None,
     query_results        |-> None,
     final_response       |-> None,
     error_message        |-> None,
     database_schema      |-> None]

\* sql_generator_node, lines 84-91: the SQL text taken out of the model's answer.
CleanSql(content) ==
    LET stripped == Strip(content)
        inner == SplitSecond(stripped, FENCE)
        unfenced ==
            IF StartsWith(stripped, FENCE)
            THEN IF StartsWith(inner, SQL_TAG)
                 THEN SubSeq(inner, Len(SQL_TAG) + 1, Len(inner))
                 ELSE inner
            ELSE stripped
    IN  Strip(unfenced)

\* sql_generator_node. schemaOk: get_schema_description() returned; genOk: the model
\* call returned, with answer text content.
sql_generator_node(s, schemaOk, genOk, content) ==
    LET needSchema == ~Truthy(s.database_schema)
        schemaCall ==
            IF needSchema THEN <<Event("sql_generator", "schema", schemaOk, None)>>
            ELSE << >>
        s1 == IF needSchema THEN [s EXCEPT !.database_schema = Str(SCHEMA_TEXT)] ELSE s
        genCall == <<Event("sql_generator", "generate", genOk, None)>>
    IN  IF needSchema /\ ~schemaOk
        THEN Result([s EXCEPT !.error_message = Str(MSG_SCHEMA_FAILED \o ERR_OPEN)],
                    FALSE, schemaCall)
        ELSE IF genOk
        THEN Result([s1 EXCEPT !.generated_sql = Str(CleanSql(content))],
                    FALSE, schemaCall \o genCall)
        ELSE Result([s1 EXCEPT !.error_message = Str(MSG_GENERATION_FAILED \o ERR_LLM)],
                    FALSE, schemaCall \o genCall)

\* A loop that goes on to the end of the list and keeps the last keyword it found.
LastKeyword(sql_query) ==
    LET found == {k \in 1..Len(destructive_keywords) :
                    Contains(sql_query, destructive_keywords[k])}
    IN  IF found = {} THEN 0 ELSE Max(found)

\* The denylist loop of query_validator_node (lines 115-118): the position in
\* destructive_keywords of the first keyword that is a substring of the upper-cased
\* query, 0 when none is.
FirstKeyword(sql_query) ==
    LET found == {k \in 1..Len(destructive_keywords) :
                    Contains(sql_query, destructive_keywords[k])}
    IN  IF found = {} THEN 0 ELSE Min(found)

\* A validator that leaves sql_validation_error alone when the dry run succeeds.
mark_valid_leaves_field(s) == s

\* Line 132: the dry run succeeded, the validation error is reset to None.
mark_valid(s) == [s EXCEPT !.sql_validation_error = None]

\* query_validator_node after its guard (lines 107-140): the denylist, then the
\* dry run. connectOk: sqlite3.connect returned; plan: what
\* cursor.execute("EXPLAIN QUERY PLAN ...") did ("ok", "sqlite_error" for an
\* sqlite3.Error, "exception" for any other exception).
validate_query(s, connectOk, plan) ==
    IF s.generated_sql.tag = "None"
    THEN Result(s, TRUE, << >>)         \* None.upper(): AttributeError, outside the try
    ELSE
    LET hit == FirstKeyword(Upper(s.generated_sql.v))
        connect == Event("query_validator", "connect", connectOk, None)
        explain == Event("query_validator", "plan", plan = "ok", s.generated_sql)
        close == Event("query_validator", "close", TRUE, None)
    IN  IF hit # 0
        THEN Result([s EXCEPT !.sql_validation_error =
                        Str(MSG_DESTRUCTIVE \o destructive_keywords[hit])],
                    FALSE, << >>)
        ELSE IF ~connectOk
        \* except sqlite3.Error: the field is written, then conn.close() names a conn
        \* that was never bound: UnboundLocalError leaves the node.
        THEN Result([s EXCEPT !.sql_validation_error = Str(MSG_SYNTAX_ERROR \o ERR_OPEN)],
                    TRUE, <<connect>>)
        ELSE IF plan = "ok"
        THEN Result(mark_valid(s), FALSE, <<connect, explain, close>>)
        ELSE IF plan = "sqlite_error"
        THEN Result([s EXCEPT !.sql_validation_error = Str(MSG_SYNTAX_ERROR \o ERR_SYNTAX)],
                    FALSE, <<connect, explain, close>>)
        ELSE Result([s EXCEPT !.sql_validation_error = Str(MSG_VALIDATION_ERROR \o ERR_OTHER)],
                    FALSE, <<connect, explain>>)

\* A query_validator_node without the guard of lines 104-105.
query_validator_node_unguarded(s, connectOk, plan) == validate_query(s, connectOk, plan)

\* query_validator_node: nothing is done on a record whose error_message is set.
query_validator_node(s, connectOk, plan) ==
    IF Truthy(s.error_message) THEN Result(s, FALSE, << >>)
    ELSE validate_query(s, connectOk, plan)

\* dict(row) for each row the cursor returned: n rows, one column.
Rows(n) == [i \in 1..n |-> [id |-> i]]

\* query_executor_node after its guard (lines 149-169). connectOk: sqlite3.connect
\* returned; exec: what cursor.execute(generated_sql) did; nrows: the number of rows
\* fetchall() returned.
run_query(s, connectOk, exec, nrows) ==
    LET \* cursor.execute(None) raises TypeError whatever the database holds
        outcome == IF s.generated_sql.tag = "None" THEN "exception" ELSE exec
        connect == Event("query_executor", "connect", connectOk, None)
        execute == Event("query_executor", "execute", outcome = "ok", s.generated_sql)
        close == Event("query_executor", "close", TRUE, None)
    IN  IF ~connectOk
        THEN Result([s EXCEPT !.error_message = Str(MSG_DB_EXECUTION_ERROR \o ERR_OPEN)],
                    FALSE, <<connect>>)
        ELSE IF outcome = "ok"
        THEN Result([s EXCEPT !.query_results = List(Rows(nrows))],
                    FALSE, <<connect, execute, close>>)
        ELSE IF outcome = "sqlite_error"
        THEN Result([s EXCEPT !.error_message = Str(MSG_DB_EXECUTION_ERROR \o ERR_EXEC)],
                    FALSE, <<connect, execute>>)
        ELSE Result([s EXCEPT !.error_message = Str(MSG_QUERY_EXECUTION_ERROR \o ERR_OTHER)],
                    FALSE, <<connect, execute>>)

\* A query_executor_node whose guard looks at error_message alone.
query_executor_node_ignores_validation(s, connectOk, exec, nrows) ==
    IF Truthy(s.error_message) THEN Result(s, FALSE, << >>)
    ELSE run_query(s, connectOk, exec, nrows)

\* query_executor_node: nothing is done on a record that carries an error.
query_executor_node(s, connectOk, exec, nrows) ==
    IF Truthy(s.error_message) \/ Truthy(s.sql_validation_error)
    THEN Result(s, FALSE, << >>)
    ELSE run_query(s, connectOk, exec, nrows)

\* response_explainer_node. genOk: the model call returned, with answer text content.
response_explainer_node(s, genOk, content) ==
    IF Truthy(s.error_message) \/ Truthy(s.sql_validation_error)
    THEN IF Truthy(s.sql_validation_error)
         THEN Result([s EXCEPT !.final_response =
                         Str(MSG_COULD_NOT_EXECUTE \o s.sql_validation_error.v \o MSG_REPHRASE)],
                     FALSE, << >>)
         ELSE Result([s EXCEPT !.final_response =
                         Str(MSG_ENCOUNTERED \o s.error_message.v \o MSG_TRY_AGAIN)],
                     FALSE, << >>)
    ELSE
    LET genCall == <<Event("response_explainer", "generate", genOk, None)>>
    IN  IF genOk
        THEN Result([s EXCEPT !.final_response = Str(Strip(content))], FALSE, genCall)
        ELSE IF s.query_results.tag = "None"
        THEN Result(s, TRUE, genCall)   \* len(None) in the except clause: TypeError
        ELSE Result([s EXCEPT !.final_response =
                        Str(MSG_FOUND \o ToStr(Len(s.query_results.v))
                            \o MSG_NO_EXPLANATION \o ERR_LLM)],
                    FALSE, genCall)

\* app.py main, lines 109-113: the error the page shows for a terminal record
\* (None when it shows none).
displayed_error(result) ==
    IF Truthy(result.error_message) THEN result.error_message
    ELSE IF Truthy(result.sql_validation_error) THEN result.sql_validation_error
    ELSE None

---------------------------------------------------------------------------
\* app.py: the script of the Streamlit page. A script run makes calls that put
\* elements on the page; the page of a run is the sequence of those calls, from
\* line 65 on.

\* app.py, line 98: '\u274c Failed to initialize workflow: '
MSG_INIT_FAILED ==
    <<"U+274C"," ","F","a","i","l","e","d"," ","t","o"," ","i","n","i","t","i","a","l","i",
      "z","e"," ","w","o","r","k","f","l","o","w",":"," ">>

\* str(e) of the TypeError of len(None)
ERR_NO_LEN ==
    <<"o","b","j","e","c","t"," ","o","f"," ","t","y","p","e"," ","'","N","o","n","e","T","y",
      "p","e","'"," ","h","a","s"," ","n","o"," ","l","e","n","(",")">>

\* str(e) of the UnboundLocalError of workflow.py, line 136 (the text of CPython 3.11)
ERR_UNBOUND_CONN ==
    <<"c","a","n","n","o","t"," ","a","c","c","e","s","s"," ","l","o","c","a","l"," ","v","a",
      "r","i","a","b","l","e"," ","'","c","o","n","n","'"," ","w","h","e","r","e"," ","i","t",
      " ","i","s"," ","n","o","t"," ","a","s","s","o","c","i","a","t","e","d"," ","w","i","t",
      "h"," ","a"," ","v","a","l","u","e">>

\* str(e) of the AttributeError of None.upper()
ERR_NO_UPPER ==
    <<"'","N","o","n","e","T","y","p","e","'"," ","o","b","j","e","c","t"," ","h","a","s"," ",
      "n","o"," ","a","t","t","r","i","b","u","t","e"," ","'","u","p","p","e","r","'">>

\* components.py, line 129: '\u274c '
MSG_ERROR_MARK ==
    <<"U+274C"," ">>

\* app.py, line 144: '\u274c Failed'
MSG_HISTORY_FAILED ==
    <<"U+274C"," ","F","a","i","l","e","d">>

\* app.py, line 142: '\u2705 '
MSG_HISTORY_MARK ==
    <<"U+2705"," ">>

\* app.py, line 142: ' results'
MSG_HISTORY_RESULTS ==
    <<" ","r","e","s","u","l","t","s">>

\* app.py, line 132: 'Query '
MSG_HISTORY_QUERY ==
    <<"Q","u","e","r","y"," ">>

\* app.py, line 136: '**Question:** '
MSG_HISTORY_QUESTION ==
    <<"*","*","Q","u","e","s","t","i","o","n",":","*","*"," ">>

\* One call that puts an element on the page.
Shown(call, text) == [call |-> call, text |-> text]

\* components.py, lines 125-129
display_error_message(error_message) == Shown("st.error", MSG_ERROR_MARK \o error_message)

\* Lines 90-95: the entry of the query history made of a terminal record whose
\* query_results is a list.
history_entry(question, result) ==
    [question      |-> question,
     sql           |-> result.generated_sql,
     results_count |-> Len(result.query_results.v),
     success       |-> ~(Truthy(result.error_message) \/ Truthy(result.sql_validation_error))]

\* Lines 102-121: what the page shows of the record kept in the session state.
show_results(workflow_results) ==
    IF workflow_results = None THEN << >>
    ELSE
    LET result == workflow_results
    IN  (IF Truthy(result.generated_sql)
         THEN <<Shown("display_sql_query", result.generated_sql.v)>> ELSE << >>)
        \o (IF displayed_error(result) # None
            THEN <<display_error_message(displayed_error(result).v)>> ELSE << >>)
        \o (IF result.query_results # None
            THEN <<Shown("display_query_results", ToStr(Len(result.query_results.v)))>>
            ELSE << >>)
        \o (IF Truthy(result.final_response)
            THEN <<Shown("display_final_response", result.final_response.v)>> ELSE << >>)

\* Lines 131-144: the expander of entry query_info, the i-th (from 0) of the
\* recent queries, newest first, in a history of total entries.
show_history_entry(query_info, i, total) ==
    <<Shown("st.expander",
            MSG_HISTORY_QUERY \o ToStr(total - i) \o <<":", " ">>
            \o SubSeq(query_info.question, 1, Min({50, Len(query_info.question)}))
            \o <<".", ".", ".">>),
      Shown("st.write", MSG_HISTORY_QUESTION \o query_info.question)>>
    \o (IF Truthy(query_info.sql) THEN <<Shown("st.code", query_info.sql.v)>> ELSE << >>)
    \o (IF query_info.success
        THEN <<Shown("st.success",
                     MSG_HISTORY_MARK \o ToStr(query_info.results_count)
                     \o MSG_HISTORY_RESULTS)>>
        ELSE <<Shown("st.error", MSG_HISTORY_FAILED)>>)

\* Lines 124-144: the last five entries of the query history, newest first.
show_history(query_history) ==
    LET total == Len(query_history)
        recent_queries == SubSeq(query_history, Max({1, total - 4}), total)
        n == Len(recent_queries)
    IN  Concat([i \in 1..n |-> show_history_entry(recent_queries[n + 1 - i], i - 1, total)])

\* str(e) of the exception that left node on record s.
fault_text(node, s) ==
    IF node = "query_validator"
    THEN IF s.generated_sql = None THEN ERR_NO_UPPER ELSE ERR_UNBOUND_CONN
    ELSE ERR_NO_LEN

\* Lines 86-99 and 102-144 of a script run in which the button was pressed, from the
\* point where workflow.invoke is over: raised tells whether an exception left it
\* (with text e), result is the record it returned otherwise. The record is put into
\* the session state (line 87) before the history entry is made; len(None) at line 93
\* raises TypeError when query_results is None, and the handler of lines 97-99 ends
\* the script run.
after_invoke(a, question, raised, e, result) ==
    IF raised
    THEN [a EXCEPT !.page = <<Shown("st.error", MSG_INIT_FAILED \o e)>>]
    ELSE IF result.query_results = None
    THEN [a EXCEPT !.workflow_results = result,
                   !.page = <<Shown("st.error", MSG_INIT_FAILED \o ERR_NO_LEN)>>]
    ELSE LET history == Append(a.query_history, history_entry(question, result))
         IN  [a EXCEPT !.workflow_results = result,
                       !.query_history = history,
                       !.page = show_results(result) \o show_history(history)]

\* A script run in which the button was not pressed (or the question was blank):
\* lines 102-144 on the session state as it is.
rerun(a) ==
    [a EXCEPT !.page = show_results(a.workflow_results) \o show_history(a.query_history)]

---------------------------------------------------------------------------
\* Inputs of the SQL pipeline.

\* 'SELECT'
W_SELECT ==
    <<"S","E","L","E","C","T">>

\* 'name'
W_NAME ==
    <<"n","a","m","e">>

\* 'created_date'
W_CREATED_DATE ==
    <<"c","r","e","a","t","e","d","_","d","a","t","e">>

\* 'drop'
W_DROP_LOWER ==
    <<"d","r","o","p">>

\* 'Delete'
W_DELETE_MIXED ==
    <<"D","e","l","e","t","e">>

\* 'in\u017fert': insert written with the long s, whose upper case is S
W_INSERT_LONG_S ==
    <<"i","n","U+017F","e","r","t">>

\* 'top products?'
QUESTION ==
    <<"t","o","p"," ","p","r","o","d","u","c","t","s","?">>

\* ' Here are the results.\x0c\n'
EXPLANATION ==
    <<" ","H","e","r","e"," ","a","r","e"," ","t","h","e"," ","r","e","s","u","l","t","s",".",
      "\f","\n">>


\* Longest query, in words, the language model is taken to answer with.
MaxWords == 2
\* Most rows the database is taken to return.
MaxRows == 2
\* Most node calls made on one record when the nodes are called directly.
MaxCalls == 2

Words ==
    {W_SELECT, W_NAME, W_CREATED_DATE, KW_DROP, W_DROP_LOWER, W_DELETE_MIXED, W_INSERT_LONG_S}

RECURSIVE Join(_)
Join(ws) ==
    IF ws = << >> THEN << >>
    ELSE IF Len(ws) = 1 THEN ws[1]
    ELSE ws[1] \o <<" ">> \o Join(Tail(ws))

\* The SQL texts the language model may produce: up to MaxWords words.
Queries == {Join(ws) : ws \in UNION {[1..n -> Words] : n \in 0..MaxWords}}

\* The answers of the language model to the SQL prompt: the query bare, padded
\* with whitespace (a form feed and a blank before it, a no-break space and a line
\* feed after it), or inside a code block tagged sql.
SqlAnswers ==
    UNION {{q,
            <<"\f", " ">> \o q \o <<"U+00A0", "\n">>,
            FENCE \o SQL_TAG \o <<"\n">> \o q \o <<"\n">> \o FENCE}
           : q \in Queries}

\* The answers of the language model to the explanation prompt.
Explanations == {EXPLANATION, <<" ">>}

PlanOutcomes == {"ok", "sqlite_error", "exception"}

---------------------------------------------------------------------------
\* The research run does not move while an SQL run is modelled, and conversely.

ResearchIdle == [query |-> "", search_results |-> << >>, page_contents |-> << >>,
                 summaries |-> << >>, final_report |-> "", citations |-> << >>,
                 error_message |-> None]

\* The application has been started and has served nothing: research_sessions = {}
\* (main.py, line 53), no request has come in.
ApiIdle == [sessions |-> << >>, now |-> 0, pending |-> {}, running |-> {},
            responses |-> << >>, issued |-> 0, runs |-> 0, history |-> << >>]

\* The page has been opened and nothing was asked: lines 35-38 of app.py.
AppIdle == [pos |-> "idle", workflow_results |-> None, query_history |-> << >>,
            page |-> << >>, pressed |-> FALSE, submits |-> 0]

\* run_research_stream has not been called: no generator, no event.
StreamIdle == [pos |-> "idle", events |-> << >>, accepted |-> 0, demand |-> FALSE,
               closed |-> FALSE, trace |-> << >>]

---------------------------------------------------------------------------
\* One SQL run, as app.py starts it: workflow.invoke(initial_state) on the graph of
\* create_sql_workflow. The engine gives each node the record the previous node
\* returned; an exception that leaves a node ends the run without a record.

Init ==
    /\ initial = initial_state(QUESTION)
    /\ state = initial
    /\ pc = "sql_generator"
    /\ invoked = << >>
    /\ log = << >>
    /\ research = ResearchIdle
    /\ rpc = "idle"
    /\ rlog = << >>
    /\ stream = StreamIdle
    /\ returned = None
    /\ api = ApiIdle
    /\ app = AppIdle

Step(node, r, next) ==
    /\ invoked' = Append(invoked, node)
    /\ log' = log \o r.events
    /\ state' = IF r.raised THEN state ELSE r.state
    /\ pc' = IF r.raised THEN "FAULT" ELSE next
    /\ UNCHANGED <<initial, researchVars, callerVars, api, app>>

SqlGenerator ==
    /\ pc = "sql_generator"
    /\ \E schemaOk \in BOOLEAN, genOk \in BOOLEAN, content \in SqlAnswers :
         Step("sql_generator", sql_generator_node(state, schemaOk, genOk, content),
              "query_validator")

QueryValidator ==
    /\ pc = "query_validator"
    /\ \E connectOk \in BOOLEAN, plan \in PlanOutcomes :
         Step("query_validator", query_validator_node(state, connectOk, plan),
              "query_executor")

QueryExecutor ==
    /\ pc = "query_executor"
    /\ \E connectOk \in BOOLEAN, exec \in PlanOutcomes, nrows \in 0..MaxRows :
         Step("query_executor", query_executor_node(state, connectOk, exec, nrows),
              "response_explainer")

ResponseExplainer ==
    /\ pc = "response_explainer"
    /\ \E genOk \in BOOLEAN, content \in Explanations :
         Step("response_explainer", response_explainer_node(state, genOk, content), "END")

Next == SqlGenerator \/ QueryValidator \/ QueryExecutor \/ ResponseExplainer

Spec == Init /\ [][Next]_vars

---------------------------------------------------------------------------
\* The page of app.py over several script runs. A press of the button with a
\* question starts a script run that calls workflow.invoke (line 84) on a fresh
\* record; when the graph is over the script run goes on from line 86. Any other
\* interaction starts a script run that only shows the session state.

\* Most presses of the button.
MaxSubmits == 2

AppInit ==
    /\ initial = initial_state(QUESTION)
    /\ state = initial
    /\ pc = "idle"
    /\ invoked = << >>
    /\ log = << >>
    /\ research = ResearchIdle
    /\ rpc = "idle"
    /\ rlog = << >>
    /\ stream = StreamIdle
    /\ returned = None
    /\ api = ApiIdle
    /\ app = AppIdle

\* Lines 65-84: the button is pressed with a question; the graph is started.
MainSubmit ==
    /\ app.pos = "idle"
    /\ app.submits < MaxSubmits
    /\ app' = [app EXCEPT !.pos = "invoking", !.page = << >>, !.pressed = TRUE,
                          !.submits = @ + 1]
    /\ initial' = initial_state(Strip(QUESTION))
    /\ state' = initial'
    /\ pc' = "sql_generator"
    /\ invoked' = << >>
    /\ log' = << >>
    /\ UNCHANGED <<researchVars, callerVars, api>>

\* Lines 86-144: workflow.invoke is over and the script run goes on to its end.
MainAfterInvoke ==
    /\ app.pos = "invoking"
    /\ pc \in {"END", "FAULT"}
    /\ app' = [after_invoke(app, initial.user_question, pc = "FAULT",
                            fault_text(invoked[Len(invoked)], state), state)
                 EXCEPT !.pos = "idle"]
    /\ UNCHANGED <<sqlVars, researchVars, callerVars, api>>

\* A script run without a press of the button.
MainRerun ==
    /\ app.pos = "idle"
    /\ app' = [rerun(app) EXCEPT !.pressed = FALSE]
    /\ UNCHANGED <<sqlVars, researchVars, callerVars, api>>

AppNext ==
    \/ MainSubmit
    \/ SqlGenerator \/ QueryValidator \/ QueryExecutor \/ ResponseExplainer
    \/ MainAfterInvoke
    \/ MainRerun

AppSpec == AppInit /\ [][AppNext]_vars

---------------------------------------------------------------------------
\* The nodes called directly, as the functions they are, on any SQLWorkflowState
\* record: up to MaxCalls calls in any order on one record. The caller's dict is
\* the one the node writes to, so what a node wrote before an exception left it
\* stays in the record.

StageQueries ==
    {W_SELECT \o <<" ">> \o W_NAME,
     W_SELECT \o <<" ">> \o W_CREATED_DATE,
     W_DROP_LOWER \o <<" ">> \o W_NAME,
     W_DELETE_MIXED \o <<" ">> \o W_DROP_LOWER,
     W_SELECT \o <<" ">> \o W_INSERT_LONG_S}

StageRecords ==
    {[user_question        |-> QUESTION,
      generated_sql        |-> sql,
      sql_validation_error |-> verr,
      query_results        |-> rows,
      final_response       |-> None,
      error_message        |-> err,
      database_schema      |-> None] :
        sql \in {None} \cup {Str(q) : q \in StageQueries},
        verr \in {None, Str(MSG_SYNTAX_ERROR \o ERR_SYNTAX)},
        rows \in {None, List(Rows(1))},
        err \in {None, Str(MSG_DB_EXECUTION_ERROR \o ERR_EXEC)}}

StageInit ==
    /\ initial \in StageRecords
    /\ state = initial
    /\ pc = "call"
    /\ invoked = << >>
    /\ log = << >>
    /\ research = ResearchIdle
    /\ rpc = "idle"
    /\ rlog = << >>
    /\ stream = StreamIdle
    /\ returned = None
    /\ api = ApiIdle
    /\ app = AppIdle

Call(node, r) ==
    /\ pc = "call"
    /\ Len(invoked) < MaxCalls
    /\ invoked' = Append(invoked, node)
    /\ log' = log \o r.events
    /\ state' = r.state
    /\ pc' = IF r.raised THEN "raised" ELSE "call"
    /\ UNCHANGED <<initial, researchVars, callerVars, api, app>>

CallSqlGenerator ==
    \E schemaOk \in BOOLEAN, genOk \in BOOLEAN, content \in StageQueries :
        Call("sql_generator", sql_generator_node(state, schemaOk, genOk, content))

CallQueryValidator ==
    \E connectOk \in BOOLEAN, plan \in PlanOutcomes :
        Call("query_validator", query_validator_node(state, connectOk, plan))

CallQueryExecutor ==
    \E connectOk \in BOOLEAN, exec \in PlanOutcomes, nrows \in 0..MaxRows :
        Call("query_executor", query_executor_node(state, connectOk, exec, nrows))

CallResponseExplainer ==
    \E genOk \in BOOLEAN, content \in Explanations :
        Call("response_explainer", response_explainer_node(state, genOk, content))

StageNext ==
    CallSqlGenerator \/ CallQueryValidator \/ CallQueryExecutor \/ CallResponseExplainer

StageSpec == StageInit /\ [][StageNext]_vars

---------------------------------------------------------------------------
\* The research pipeline: Web_Research_Assistant/src/worflow/research_workflow.py.
\* Titles, URLs and messages are strings; the page and snippet texts, which
\* content_loader cleans, are sequences of characters.

\* Most results the search service is taken to return.
MaxResults == 2

\* content_loader, line 135: the longest cleaned page text kept as it is.
MAX_CONTENT_LENGTH == 4000

\* '  Solar \r\n\x0c up 20%\xa0 \n'
PAGE_TEXT ==
    <<" "," ","S","o","l","a","r"," ","\r","\n","\f"," ","u","p"," ","2","0","%","U+00A0",
      " ","\n">>

\* 'Solar grew.'
SNIPPET ==
    <<"S","o","l","a","r"," ","g","r","e","w",".">>

\* '...'
ELLIPSIS ==
    <<".",".",".">>


\* The line boundaries of str.splitlines(): U+000A-U+000D, U+001C-U+001E, U+0085,
\* U+2028, U+2029.
LINEBREAKS ==
    {"\n", "U+000B", "\f", "\r", "U+001C", "U+001D", "U+001E", "U+0085", "U+2028", "U+2029"}

\* str(e) of the exceptions the search service and the language model raise.
ERR_SEARCH == "401 unauthorized"
ERR_MODEL == "503 service unavailable"
\* time.strftime("%Y-%m-%d") on the day of the run.
TODAY == "2024-06-01"
\* The report the language model writes.
REPORT == "Executive Summary ..."
\* The summary the language model writes of one page.
SUMMARY == "Solar capacity grew."

\* result.get(key, default) on a dict
Get(d, key, default) == IF key \in DOMAIN d THEN d[key] ELSE default

\* One call to an external service by a research node.
REvent(stage, op, ok, arg) == [stage |-> stage, op |-> op, ok |-> ok, arg |-> arg]

\* What one invocation of a research node comes to: the record it returns and the
\* external calls it made. Every node body is inside try/except Exception.
RResult(s, events) == [state |-> s, events |-> events]

\* run_research, lines 551-559: the record a research run starts from.
research_initial_state(query) ==
    [query          |-> query,
     search_results |-> << >>,
     page_contents  |-> << >>,
     summaries      |-> << >>,
     final_report   |-> "",
     citations      |-> << >>,
     error_message  |-> None]

\* web_search_agent, lines 69-74 and 79-84: one structured search result.
structured_result(result) ==
    [title   |-> Get(result, "title", "No title"),
     url     |-> Get(result, "url", ""),
     content |-> Get(result, "content", << >>),
     score   |-> Get(result, "score", 0)]

\* web_search_agent. searchOk: search_tool.invoke returned, with value raw: a list
\* of results ([kind |-> "list", items |-> ...]) or a dict that may hold them under
\* 'results'.
web_search_agent(s, searchOk, raw) ==
    LET call == <<REvent("web_search", "search", searchOk, s.query)>>
        items == IF raw.kind = "list" THEN raw.items ELSE Get(raw, "results", << >>)
        structured_results == [i \in 1..Len(items) |-> structured_result(items[i])]
    IN  IF searchOk
        THEN RResult([s EXCEPT !.search_results = structured_results], call)
        ELSE RResult([s EXCEPT !.error_message = Str("Search failed: " \o ERR_SEARCH)], call)

\* str.splitlines(): the text cut at its line boundaries, the boundaries left out.
\* A carriage return followed by a line feed is one boundary; a boundary at the end
\* of the text starts no further line.
RECURSIVE SplitLines(_)
SplitLines(text) ==
    LET breaks == {i \in 1..Len(text) : text[i] \in LINEBREAKS}
        first == Min(breaks)
        width == IF text[first] = "\r" /\ first < Len(text) /\ text[first + 1] = "\n"
                 THEN 2 ELSE 1
    IN  IF text = << >> THEN << >>
        ELSE IF breaks = {} THEN <<text>>
        ELSE <<SubSeq(text, 1, first - 1)>>
             \o SplitLines(SubSeq(text, first + width, Len(text)))

\* '\n'.join(lines)
RECURSIVE JoinLines(_)
JoinLines(lines) ==
    IF lines = << >> THEN << >>
    ELSE IF Len(lines) = 1 THEN lines[1]
    ELSE lines[1] \o <<"\n">> \o JoinLines(Tail(lines))

NonEmpty(line) == line # << >>

\* content_loader, lines 131-136: every line stripped, the empty ones dropped, the
\* result cut at MAX_CONTENT_LENGTH characters.
clean_content(content) ==
    LET lines == SplitLines(content)
        stripped == [i \in 1..Len(lines) |-> Strip(lines[i])]
        joined == JoinLines(SelectSeq(stripped, NonEmpty))
    IN  IF Len(joined) > MAX_CONTENT_LENGTH
        THEN SubSeq(joined, 1, MAX_CONTENT_LENGTH) \o ELLIPSIS
        ELSE joined

\* content_loader, lines 138-145: the record of a page the loader returned.
loaded_page(result) ==
    [title            |-> result.title,
     url              |-> result.url,
     content          |-> clean_content(PAGE_TEXT),
     original_content |-> result.content,
     score            |-> result.score,
     metadata         |-> [source |-> result.url]]

\* A handler that keeps the search result's text but does not mark where it came from.
fallback_page_untagged(result) ==
    [title            |-> result.title,
     url              |-> result.url,
     content          |-> result.content,
     original_content |-> result.content,
     score            |-> result.score,
     metadata         |-> [source |-> result.url]]

\* content_loader, lines 155-163: the record made of the search result's own text
\* when the loader raised or returned no document.
fallback_page(result) ==
    [title            |-> result.title,
     url              |-> result.url,
     content          |-> result.content,
     original_content |-> result.content,
     score            |-> result.score,
     metadata         |-> [source |-> "tavily_fallback"]]

\* The loop of content_loader (lines 105-167) over results i..Len(results).
\* fetch[i] is what loader.load() did for result i: "ok" (a document), "empty"
\* (no document) or "fault" (it raised). A result without a URL is passed over.
\* The fetch counts as ok only when a document came back: lines 150-151 raise on
\* an empty list, so both other outcomes end in the handler of lines 152-164.
RECURSIVE load_pages(_, _, _)
load_pages(results, fetch, i) ==
    IF i > Len(results) THEN RResult(<< >>, << >>)
    ELSE
    LET result == results[i]
        rest == load_pages(results, fetch, i + 1)
        call == REvent("content_loader", "fetch", fetch[i] = "ok", result.url)
    IN  IF result.url = "" THEN rest
        ELSE IF fetch[i] = "ok"
        THEN RResult(<<loaded_page(result)>> \o rest.state, <<call>> \o rest.events)
        ELSE RResult(<<fallback_page(result)>> \o rest.state, <<call>> \o rest.events)

\* content_loader
content_loader(s, fetch) ==
    LET loaded == load_pages(s.search_results, fetch, 1)
    IN  RResult([s EXCEPT !.page_contents = loaded.state], loaded.events)

\* document_summarizer. gen[i]: whether model.invoke returned for page i.
document_summarizer(s, gen) ==
    LET pages == s.page_contents
        summaries ==
            [i \in 1..Len(pages) |->
                [title   |-> pages[i].title,
                 url     |-> pages[i].url,
                 summary |-> IF gen[i] THEN SUMMARY ELSE "Summary failed: " \o ERR_MODEL,
                 score   |-> pages[i].score]]
        calls == [i \in 1..Len(pages) |->
                    REvent("summarizer", "generate", gen[i], pages[i].url)]
    IN  RResult([s EXCEPT !.summaries = summaries], calls)

\* report_writer. genOk: model.invoke returned.
report_writer(s, genOk) ==
    LET call == <<REvent("report_writer", "generate", genOk, s.query)>>
    IN  IF genOk
        THEN RResult([s EXCEPT !.final_report = REPORT], call)
        ELSE RResult([s EXCEPT !.error_message =
                         Str("Report writing failed: " \o ERR_MODEL)], call)

\* str(n) of a natural number, as a string
RECURSIVE NumStr(_)
NumStr(n) ==
    IF n < 10 THEN DIGITS[n + 1]
    ELSE NumStr(n \div 10) \o DIGITS[(n % 10) + 1]

\* A last stage that returns the record with the error slot emptied.
citation_cache_resets_error(s) ==
    RResult([s EXCEPT !.citations = << >>, !.error_message = None], << >>)

\* citation_cache
citation_cache(s) ==
    LET summaries == s.summaries
        citations ==
            [i \in 1..Len(summaries) |->
                [id              |-> i,
                 title           |-> summaries[i].title,
                 url             |-> summaries[i].url,
                 access_date     |-> TODAY,
                 relevance_score |-> summaries[i].score,
                 citation_format |-> "[" \o NumStr(i) \o "] " \o summaries[i].title
                                     \o ". Retrieved " \o TODAY \o ". " \o summaries[i].url]]
    IN  RResult([s EXCEPT !.citations = citations], << >>)

---------------------------------------------------------------------------
\* Inputs of the research pipeline.

\* The result dicts the search service may return: a full one, one without a URL,
\* one with a URL alone.
RawResults ==
    {[title |-> "Solar 2024", url |-> "https://a.example/solar", content |-> SNIPPET,
      score |-> 9],
     [title |-> "Wind 2024", content |-> SNIPPET, score |-> 7],
     [url |-> "https://b.example/wind"]}

RawResultLists == UNION {[1..n -> RawResults] : n \in 0..MaxResults}

\* What search_tool.invoke may return.
SearchReturns ==
    {[kind |-> "list", items |-> rs] : rs \in RawResultLists}
    \cup {[kind |-> "dict", results |-> rs] : rs \in RawResultLists}
    \cup {[kind |-> "dict"]}

FetchOutcomes == {"ok", "empty", "fault"}

---------------------------------------------------------------------------
\* One research run, as run_research starts it: invoke(initial_state, config) on the
\* graph of create_research_workflow.

ResearchInit ==
    /\ research = research_initial_state("renewable energy 2024")
    /\ rpc = "web_search"
    /\ rlog = << >>
    /\ stream = StreamIdle
    /\ returned = None
    /\ api = ApiIdle
    /\ app = AppIdle
    /\ initial = initial_state(QUESTION)
    /\ state = initial
    /\ pc = "idle"
    /\ invoked = << >>
    /\ log = << >>

RStep(r, next) ==
    /\ research' = r.state
    /\ rlog' = rlog \o r.events
    /\ rpc' = next
    /\ UNCHANGED <<sqlVars, callerVars, api, app>>

WebSearch ==
    /\ rpc = "web_search"
    /\ \E searchOk \in BOOLEAN, raw \in SearchReturns :
         RStep(web_search_agent(research, searchOk, raw), "content_loader")

ContentLoader ==
    /\ rpc = "content_loader"
    /\ \E fetch \in [1..Len(research.search_results) -> FetchOutcomes] :
         RStep(content_loader(research, fetch), "summarizer")

Summarizer ==
    /\ rpc = "summarizer"
    /\ \E gen \in [1..Len(research.page_contents) -> BOOLEAN] :
         RStep(document_summarizer(research, gen), "report_writer")

ReportWriter ==
    /\ rpc = "report_writer"
    /\ \E genOk \in BOOLEAN :
         RStep(report_writer(research, genOk), "citation_cache")

CitationCache ==
    /\ rpc = "citation_cache"
    /\ RStep(citation_cache(research), "END")

ResearchNext == WebSearch \/ ContentLoader \/ Summarizer \/ ReportWriter \/ CitationCache

ResearchSpec == ResearchInit /\ [][ResearchNext]_vars

---------------------------------------------------------------------------
\* Notions the properties are stated in.

\* 'destructive operation'
DESTRUCTIVE_OPERATION ==
    <<"d","e","s","t","r","u","c","t","i","v","e"," ","o","p","e","r","a","t","i","o","n">>

\* The characters an SQL identifier or keyword is made of.
IsIdentChar(c) ==
    \/ \E i \in 1..Len(LOWER) : c = LOWER[i] \/ c = UPPER[i]
    \/ \E i \in 1..Len(DIGITS) : c = DIGITS[i]
    \/ c = "_"

\* c and d are the same character up to the case of a letter.
SameChar(c, d) ==
    c = d \/ \E i \in 1..Len(LOWER) : {c, d} = {LOWER[i], UPPER[i]}

\* kw stands in text at position i as a whole token, whatever its case: the
\* characters match and no identifier character touches it on either side.
TokenAt(text, kw, i) ==
    /\ \A k \in 1..Len(kw) : SameChar(text[i + k - 1], kw[k])
    /\ i = 1 \/ ~IsIdentChar(text[i - 1])
    /\ i + Len(kw) - 1 = Len(text) \/ ~IsIdentChar(text[i + Len(kw)])

\* text holds a denylisted keyword as a case-insensitive whole token.
HasDenylistedToken(text) ==
    \E n \in 1..Len(destructive_keywords) :
        \E i \in 1..(Len(text) - Len(destructive_keywords[n]) + 1) :
            TokenAt(text, destructive_keywords[n], i)

\* The calls made to the execution service (SQLite) so far in the run.
ExecutionServiceCalls == {i \in 1..Len(log) : log[i].op \in {"connect", "plan", "execute"}}

\* The validator accepted the record's query earlier in the run: its dry run of
\* that very text succeeded.
PlannedBefore(i) ==
    \E j \in 1..(i - 1) : log[j].op = "plan" /\ log[j].ok /\ log[j].arg = log[i].arg

---------------------------------------------------------------------------
\* Properties of one SQL run (Spec).

\* C1: the execution service's execute call is made only for a query the validator
\* accepted earlier in the same run (its dry run succeeded, it holds no denylisted
\* token, sql_validation_error is None); once a query is rejected no execute call
\* has been or is made and query_results stays absent.
C1_ExecuteOnlyValidated ==
    /\ \A i \in 1..Len(log) :
         log[i].op = "execute" =>
            /\ PlannedBefore(i)
            /\ log[i].arg = state.generated_sql
            /\ ~HasDenylistedToken(log[i].arg.v)
            /\ state.sql_validation_error = None
    /\ Truthy(state.sql_validation_error) =>
         /\ state.query_results = None
         /\ \A i \in 1..Len(log) : log[i].op # "execute"

\* C1 witness: the executor has executed a validated query.
C1_Witness ==
    \E i \in 1..Len(log) : log[i].op = "execute" /\ log[i].ok /\ PlannedBefore(i)

\* C2: once the validator has run on a query that holds a denylisted keyword as a
\* case-insensitive whole token, sql_validation_error is the 'destructive operation'
\* rejection, no call at all has been made to the execution service, and the
\* terminal message contains 'destructive operation'.
C2_DenylistedTokenRejected ==
    (/\ Len(invoked) >= 2
     /\ state.generated_sql # None
     /\ HasDenylistedToken(state.generated_sql.v))
    => /\ pc # "FAULT"
       /\ state.sql_validation_error # None
       /\ Contains(state.sql_validation_error.v, DESTRUCTIVE_OPERATION)
       /\ ExecutionServiceCalls = {}
       /\ pc = "END" =>
            /\ state.final_response # None
            /\ Contains(state.final_response.v, DESTRUCTIVE_OPERATION)

\* C2 witness: a run has ended on a query that names a denylisted keyword in lower
\* case.
C2_Witness ==
    /\ pc = "END"
    /\ state.generated_sql = Str(W_DROP_LOWER \o <<" ">> \o W_NAME)
    /\ Contains(state.final_response.v, DESTRUCTIVE_OPERATION)

\* C3: the validator rejects a query as a destructive operation exactly when a
\* denylisted keyword occurs in it as a whole token; a query in which a denylisted
\* word is only part of a longer identifier goes on to the dry run.
C3_RejectedExactlyOnWholeToken ==
    (/\ Len(invoked) >= 2
     /\ state.generated_sql # None)
    => /\ (/\ state.sql_validation_error # None
           /\ Contains(state.sql_validation_error.v, DESTRUCTIVE_OPERATION))
          <=> HasDenylistedToken(state.generated_sql.v)
       /\ ~HasDenylistedToken(state.generated_sql.v) =>
            \E i \in 1..Len(log) : log[i].stage = "query_validator" /\ log[i].op = "connect"

\* C4: once error_message or sql_validation_error is set, an invocation of
\* query_validator_node or query_executor_node returns the record with every field
\* unchanged and makes no call to the generation or execution service.
C4_ShortCircuit ==
    [][(/\ pc \in {"query_validator", "query_executor"}
        /\ Truthy(state.error_message) \/ Truthy(state.sql_validation_error))
       => (/\ state' = state
           /\ log' = log
           /\ pc' # "FAULT")]_vars

\* C4 witness: the generator failed, and both the validator and the executor have
\* been invoked on the record that carries its error.
C4_Witness ==
    /\ pc = "response_explainer"
    /\ Len(invoked) = 3
    /\ Truthy(state.error_message)
    /\ state.generated_sql = None

\* C6: no exception leaves query_validator_node or query_executor_node, and every
\* failed call to the execution service leaves sql_validation_error or
\* error_message set in the record the node returns.
C6_NoExceptionEscapes ==
    /\ pc # "FAULT"
    /\ (\E i \in 1..Len(log) :
            log[i].op \in {"connect", "plan", "execute"} /\ ~log[i].ok)
       => Truthy(state.sql_validation_error) \/ Truthy(state.error_message)

\* C7: a run from a fresh record never ends in an unhandled fault, and when it ends
\* final_response is present and non-empty.
C7_RunEndsWithFinalResponse ==
    /\ pc # "FAULT"
    /\ pc = "END" => Truthy(state.final_response)

---------------------------------------------------------------------------
\* Properties of the nodes called directly on any record (StageSpec).

\* The step is a call of query_validator_node whose dry run succeeded.
ValidatorPlanSucceeded ==
    /\ invoked' = Append(invoked, "query_validator")
    /\ \E i \in (Len(log) + 1)..Len(log') : log'[i].op = "plan" /\ log'[i].ok

\* A script run of app.py in which the button was pressed is over, and the graph
\* it started returned a terminal record.
PressedRunShown ==
    /\ app.pos = "idle"
    /\ app.pressed
    /\ pc = "END"

\* The texts of the errors on the page.
ErrorsShown ==
    {app.page[i].text : i \in {j \in DOMAIN app.page : app.page[j].call = "st.error"}}

\* C8: response_explainer_node gives the 'couldn't execute ... Please rephrase'
\* message whenever sql_validation_error is set, even if error_message is set too,
\* the 'I encountered an error ... Please try again' message when error_message
\* alone is set, and the page of the script run that ran the pipeline (app.py)
\* shows the error the final message reports.
C8_ValidationErrorTakesPrecedence ==
    PressedRunShown =>
        /\ Truthy(state.sql_validation_error) =>
             /\ state.final_response =
                  Str(MSG_COULD_NOT_EXECUTE \o state.sql_validation_error.v \o MSG_REPHRASE)
             /\ MSG_ERROR_MARK \o state.sql_validation_error.v \in ErrorsShown
        /\ (~Truthy(state.sql_validation_error) /\ Truthy(state.error_message)) =>
             /\ state.final_response =
                  Str(MSG_ENCOUNTERED \o state.error_message.v \o MSG_TRY_AGAIN)
             /\ MSG_ERROR_MARK \o state.error_message.v \in ErrorsShown

\* C9: when query_validator_node runs its dry run and the dry run succeeds, the
\* node returns with sql_validation_error None, whatever the field held before,
\* and with every other field as it was; on a record already validated the node
\* returns the same record.
C9_AcceptedClearsValidationError ==
    [][ValidatorPlanSucceeded =>
          /\ pc' = "call"
          /\ state'.sql_validation_error = None
          /\ state' = [state EXCEPT !.sql_validation_error = None]
          /\ state.sql_validation_error = None => state' = state]_vars

\* C9 witness: a record that came with a stale validation error has been validated
\* twice, both dry runs succeeding, and carries no validation error.
C9_Witness ==
    /\ Truthy(initial.sql_validation_error)
    /\ invoked = <<"query_validator", "query_validator">>
    /\ Cardinality({i \in 1..Len(log) : log[i].op = "plan" /\ log[i].ok}) = 2
    /\ state.sql_validation_error = None

---------------------------------------------------------------------------
\* run_research_stream, lines 391-528: a generator. Its body runs only while the
\* consumer is inside next(); it stops at each yield and hands the event over.
\* stream.pos is the part of the body the generator is in, stream.events the events
\* yielded so far, stream.accepted how many of them the consumer has pulled past,
\* stream.demand whether the consumer is inside next(), stream.closed whether the
\* consumer has given the generator up, stream.trace the nodes run and the events
\* yielded, in order. The messages of the events are display text and left out.

\* str(e) of an exception of the engine itself (graph construction, checkpointing).
ERR_ENGINE == "checkpoint write failed"

\* time.strftime("%Y-%m-%d %H:%M:%S") at the end of the run.
NOW == "2024-06-01 12:00:00"

\* Lines 441-499: the step name of the event yielded for the update of a node.
step_of_shifted(node) ==
    CASE node = "web_search" -> "searching"
      [] node = "content_loader" -> "searching"
      [] node = "summarizer" -> "loading"
      [] node = "report_writer" -> "summarizing"
      [] node = "citation_cache" -> "writing"

step_of(node) ==
    CASE node = "web_search" -> "searching"
      [] node = "content_loader" -> "loading"
      [] node = "summarizer" -> "summarizing"
      [] node = "report_writer" -> "writing"
      [] node = "citation_cache" -> "finalizing"

\* The value of line 439, int((step_count / total_steps) * 100), which the events
\* do not carry.
progress_of_step_count(step) ==
    CASE step = "initializing" -> 0
      [] step = "searching" -> (1 * 100) \div 5
      [] step = "loading" -> (2 * 100) \div 5
      [] step = "summarizing" -> (3 * 100) \div 5
      [] step = "writing" -> (4 * 100) \div 5
      [] step = "finalizing" -> (5 * 100) \div 5
      [] step = "completed" -> 100

\* Lines 427, 448, 460, 472, 484, 496, 510: the progress each status event carries.
progress_of(step) ==
    CASE step = "initializing" -> 0
      [] step = "searching" -> 20
      [] step = "loading" -> 40
      [] step = "summarizing" -> 60
      [] step = "writing" -> 80
      [] step = "finalizing" -> 95
      [] step = "completed" -> 100

\* Lines 449-451, 461-463, 473-475, 485-487, 497-499: the data of a stage event,
\* counted on the record the node returned.
data_of(node, s) ==
    CASE node = "web_search" -> [sources_found |-> Len(s.search_results)]
      [] node = "content_loader" -> [pages_processed |-> Len(s.page_contents)]
      [] node = "summarizer" -> [summaries_generated |-> Len(s.summaries)]
      [] node = "report_writer" -> [report_length |-> Len(s.final_report)]
      [] node = "citation_cache" -> [citations_count |-> Len(s.citations)]

\* Lines 423-428 and 506-511: a status event without data.
status_event(step) ==
    [type |-> "status", step |-> step, progress |-> progress_of(step)]

\* Lines 441-500: the status event for the update the engine streamed for a node.
stage_event(node, s) ==
    [type |-> "status", step |-> step_of(node), progress |-> progress_of(step_of(node)),
     data |-> data_of(node, s)]

\* format_research_response, lines 587-616.
format_research_response(result) ==
    IF Truthy(result.error_message)
    THEN [success |-> FALSE, error |-> result.error_message, data |-> None]
    ELSE [success |-> TRUE, error |-> None,
          data |-> [query               |-> result.query,
                    sources_found       |-> Len(result.search_results),
                    pages_processed     |-> Len(result.page_contents),
                    summaries_generated |-> Len(result.summaries),
                    report              |-> result.final_report,
                    citations           |-> result.citations,
                    report_length       |-> Len(result.final_report),
                    timestamp           |-> NOW]]

\* Lines 513-519: the event that carries the result.
result_event(final_result) ==
    LET formatted_result == format_research_response(final_result)
    IN  [type  |-> "result",
         data  |-> IF formatted_result.success THEN formatted_result.data ELSE None,
         error |-> formatted_result.error]

\* Lines 521-528: the event the handler of the generator yields.
error_event == [type |-> "error", step |-> "failed",
                error |-> "Workflow failed: " \o ERR_ENGINE]

\* One entry of stream.trace.
Ran(node) == [kind |-> "stage", name |-> node]
Yielded(e) == [kind |-> "yield", name |-> IF e.type = "status" THEN e.step ELSE e.type]

\* A body that runs on without being asked for the next event.
ProducerMayRunEager(st) == ~st.closed /\ st.pos # "done"

\* The body of a generator runs only between a call of next() and the next yield.
ProducerMayRun(st) == st.demand /\ ~st.closed

\* yield e: the event goes to the consumer and the body stops.
yield(st, e, pos) ==
    [st EXCEPT !.events = Append(@, e), !.trace = Append(@, Yielded(e)),
               !.demand = FALSE, !.pos = pos]

\* A body that has one more event after the one that ends the run.
after_terminal_event_yields(st) == yield(st, status_event("completed"), "done")

\* Lines 519 and 528: the body ends after the result or the error event; next()
\* raises StopIteration.
after_terminal_event(st) == [st EXCEPT !.demand = FALSE, !.pos = "done"]

\* A handler that answers the close with an event.
on_generator_exit_caught(st) ==
    [st EXCEPT !.closed = TRUE, !.events = Append(@, error_event),
               !.trace = Append(@, Yielded(error_event)), !.pos = "failed"]

\* The consumer gives the generator up: it is never resumed, or close() raises
\* GeneratorExit at the yield, which 'except Exception' (line 521) does not catch.
on_generator_exit(st) == [st EXCEPT !.closed = TRUE]

---------------------------------------------------------------------------
\* One call of run_research_stream and the consumer of its generator. The engine
\* runs the graph twice: once under stream() (lines 437-500), one event per node,
\* and once more under invoke() (line 503), from initial_state again.

StreamInit ==
    /\ research = research_initial_state("renewable energy 2024")
    /\ rpc = "web_search"
    /\ rlog = << >>
    /\ stream = [StreamIdle EXCEPT !.pos = "start"]
    /\ returned = None
    /\ api = ApiIdle
    /\ app = AppIdle
    /\ initial = initial_state(QUESTION)
    /\ state = initial
    /\ pc = "idle"
    /\ invoked = << >>
    /\ log = << >>

\* The consumer calls next(): it has pulled past every event yielded so far.
ConsumerNext ==
    /\ ~stream.demand /\ ~stream.closed /\ stream.pos # "done"
    /\ stream' = [stream EXCEPT !.demand = TRUE, !.accepted = Len(stream.events)]
    /\ UNCHANGED <<sqlVars, researchVars, returned, api, app>>

\* The consumer stops pulling.
ConsumerStop ==
    /\ ~stream.demand /\ ~stream.closed /\ stream.pos # "done"
    /\ stream' = on_generator_exit(stream)
    /\ UNCHANGED <<sqlVars, researchVars, returned, api, app>>

\* Lines 421-428: the first resumption yields the 'initializing' event.
StreamBegin ==
    /\ ProducerMayRun(stream)
    /\ stream.pos = "start"
    /\ stream' = yield(stream, status_event("initializing"), "streaming")
    /\ UNCHANGED <<sqlVars, researchVars, returned, api, app>>

\* Line 431: create_research_workflow raises; the handler yields the error event.
StreamCreateFails ==
    /\ ProducerMayRun(stream)
    /\ stream.pos = "streaming" /\ rpc = "web_search"
    /\ stream' = yield(stream, error_event, "failed")
    /\ UNCHANGED <<sqlVars, researchVars, returned, api, app>>

\* The engine runs one node. engineOk: the engine itself did not raise while it
\* applied and saved the update. Under stream() the update comes out as one event;
\* under invoke() the engine goes on to the next node.
StreamStage(node, r, next, engineOk) ==
    /\ ProducerMayRun(stream)
    /\ stream.pos \in {"streaming", "invoking"}
    /\ rpc = node
    /\ rlog' = rlog \o r.events
    /\ LET ran == [stream EXCEPT !.trace = Append(@, Ran(node))]
       IN  IF ~engineOk
           THEN /\ stream' = yield(ran, error_event, "failed")
                /\ UNCHANGED <<research, rpc>>
           ELSE /\ research' = r.state
                /\ rpc' = next
                /\ stream' = IF stream.pos = "streaming"
                             THEN yield(ran, stage_event(node, r.state), "streaming")
                             ELSE ran
    /\ UNCHANGED <<sqlVars, returned, api, app>>

\* What search_tool.invoke returns in a streamed run: up to MaxResults results, with
\* or without a URL.
StreamSearchReturns ==
    {[kind |-> "list",
      items |-> [i \in 1..n |->
                    IF i = 1 /\ bare
                    THEN [title |-> "Wind 2024", content |-> SNIPPET, score |-> 7]
                    ELSE [title |-> "Solar 2024", url |-> "https://a.example/solar",
                          content |-> SNIPPET, score |-> 9]]] :
        n \in 0..MaxResults, bare \in BOOLEAN}

StreamWebSearch ==
    \E searchOk \in BOOLEAN, raw \in StreamSearchReturns, engineOk \in BOOLEAN :
        StreamStage("web_search", web_search_agent(research, searchOk, raw),
                    "content_loader", engineOk)

StreamContentLoader ==
    \E fetch \in [1..Len(research.search_results) -> FetchOutcomes], engineOk \in BOOLEAN :
        StreamStage("content_loader", content_loader(research, fetch), "summarizer",
                    engineOk)

StreamSummarizer ==
    \E gen \in [1..Len(research.page_contents) -> BOOLEAN], engineOk \in BOOLEAN :
        StreamStage("summarizer", document_summarizer(research, gen), "report_writer",
                    engineOk)

StreamReportWriter ==
    \E genOk \in BOOLEAN, engineOk \in BOOLEAN :
        StreamStage("report_writer", report_writer(research, genOk), "citation_cache",
                    engineOk)

StreamCitationCache ==
    \E engineOk \in BOOLEAN :
        StreamStage("citation_cache", citation_cache(research), "END", engineOk)

\* Line 503: stream() is exhausted; invoke(initial_state, config) starts the graph
\* again from the initial record.
StreamInvoke ==
    /\ ProducerMayRun(stream)
    /\ stream.pos = "streaming" /\ rpc = "END"
    /\ research' = research_initial_state(research.query)
    /\ rpc' = "web_search"
    /\ stream' = [stream EXCEPT !.pos = "invoking"]
    /\ UNCHANGED <<sqlVars, rlog, returned, api, app>>

\* Lines 506-511: invoke() returned; the 'completed' event.
StreamCompleted ==
    /\ ProducerMayRun(stream)
    /\ stream.pos = "invoking" /\ rpc = "END"
    /\ stream' = yield(stream, status_event("completed"), "completed")
    /\ UNCHANGED <<sqlVars, researchVars, returned, api, app>>

\* Lines 514-519: the 'result' event, made of the record invoke() returned.
StreamResult ==
    /\ ProducerMayRun(stream)
    /\ stream.pos = "completed"
    /\ stream' = yield(stream, result_event(research), "result")
    /\ UNCHANGED <<sqlVars, researchVars, returned, api, app>>

\* The resumption after the result or the error event.
StreamReturn ==
    /\ ProducerMayRun(stream)
    /\ stream.pos \in {"result", "failed"}
    /\ stream' = after_terminal_event(stream)
    /\ UNCHANGED <<sqlVars, researchVars, returned, api, app>>

StreamNext ==
    \/ ConsumerNext \/ ConsumerStop
    \/ StreamBegin \/ StreamCreateFails
    \/ StreamWebSearch \/ StreamContentLoader \/ StreamSummarizer
    \/ StreamReportWriter \/ StreamCitationCache
    \/ StreamInvoke \/ StreamCompleted \/ StreamResult \/ StreamReturn

StreamSpec == StreamInit /\ [][StreamNext]_vars

---------------------------------------------------------------------------
\* run_research, lines 532-583: one invoke() of the research graph inside
\* try/except Exception. The nodes catch their own exceptions; what reaches the
\* handler is an exception of the engine itself.

\* A handler that keeps what the run had produced when the engine raised.
workflow_failed_keeps_partial(initial_record, partial) ==
    [partial EXCEPT !.error_message = Str("Workflow failed: " \o ERR_ENGINE)]

\* Lines 577-583: {**initial_state, "error_message": error_msg}
workflow_failed(initial_record, partial) ==
    [initial_record EXCEPT !.error_message = Str("Workflow failed: " \o ERR_ENGINE)]

\* The engine raises while the graph is built or run.
RunEngineFails ==
    /\ rpc \in {"web_search", "content_loader", "summarizer", "report_writer",
                "citation_cache"}
    /\ rlog' = Append(rlog, REvent("engine", "invoke", FALSE, research.query))
    /\ returned' = workflow_failed(research_initial_state(research.query), research)
    /\ rpc' = "returned"
    /\ UNCHANGED <<sqlVars, research, stream, api, app>>

\* Line 575: return result
RunReturn ==
    /\ rpc = "END"
    /\ returned' = research
    /\ rpc' = "returned"
    /\ UNCHANGED <<sqlVars, research, rlog, stream, api, app>>

RunResearchNext == ResearchNext \/ RunEngineFails \/ RunReturn

RunResearchSpec == ResearchInit /\ [][RunResearchNext]_vars

---------------------------------------------------------------------------
\* Either pipeline, run once from its initial record.

PipelinesInit == Init \/ ResearchInit

PipelinesNext == Next \/ ResearchNext

PipelinesSpec == PipelinesInit /\ [][PipelinesNext]_vars

---------------------------------------------------------------------------
\* Web_Research_Assistant/main.py: the FastAPI application. Its path operations
\* are coroutines (async def) without an await in their bodies, so the event loop
\* runs each of them from its first line to its return before it starts another.
\* api.sessions is research_sessions, a dict, kept as the sequence of its entries in
\* insertion order; api.now is the clock in whole seconds; api.pending the requests
\* that have come in and wait for the loop; api.running the handlers the loop has
\* started and not finished; api.responses the responses sent, in order;
\* api.history the inserts and clears done on the store, in order.

\* Most requests sent to the application.
MaxRequests == 3

\* Most seconds the clock advances.
MaxClock == 1

\* ResearchRequest.query, line 38: min_length and max_length.
MIN_QUERY_LENGTH == 5
MAX_QUERY_LENGTH == 500

\* 'solar', five characters of whitespace ('  \xa0\t '), 'sun'
QUERY_SOLAR == <<"s","o","l","a","r">>
QUERY_BLANK == <<" "," ","U+00A0","\t"," ">>
QUERY_SHORT == <<"s","u","n">>

ApiQueries == {QUERY_SOLAR, QUERY_BLANK, QUERY_SHORT}

\* Line 97: f"research_{int(time.time())}"
generated_thread_id(now) == "research_" \o NumStr(now)

\* The thread_id of a request: absent or given.
ThreadIds == {None, Str("t1")}

\* The keys a session is asked for: the given one and the first generated one.
SessionKeys == {"t1", generated_thread_id(0)}

\* Line 38: the validation of the request body before the handler is entered.
request_valid(query) ==
    Len(query) >= MIN_QUERY_LENGTH /\ Len(query) <= MAX_QUERY_LENGTH

\* str(e) of HTTPException(status_code=400, detail="Query cannot be empty")
ERR_EMPTY_QUERY == "400: Query cannot be empty"

\* A run of the research graph in which every call but perhaps the search returned,
\* for a search that gives one result.
completed_run(query, searchOk) ==
    LET s0 == research_initial_state(query)
        raw == [kind |-> "list",
                items |-> <<[title |-> "Solar 2024", url |-> "https://a.example/solar",
                             content |-> SNIPPET, score |-> 9]>>]
        s1 == web_search_agent(s0, searchOk, raw).state
        s2 == content_loader(s1, [i \in 1..Len(s1.search_results) |-> "ok"]).state
        s3 == document_summarizer(s2, [i \in 1..Len(s2.page_contents) |-> TRUE]).state
        s4 == report_writer(s3, TRUE).state
    IN  citation_cache(s4).state

\* What run_research(query, thread_id) may return.
RunOutcomes(query) == {completed_run(query, TRUE), completed_run(query, FALSE)}

\* The place of the key in the dict, 0 when it is not in it.
IndexOf(sessions, key) ==
    IF \E i \in 1..Len(sessions) : sessions[i].thread_id = key
    THEN CHOOSE i \in 1..Len(sessions) : sessions[i].thread_id = key
    ELSE 0

\* A store that keeps the entry a key already has.
store_session_keeps_first(sessions, entry) ==
    IF IndexOf(sessions, entry.thread_id) # 0 THEN sessions ELSE Append(sessions, entry)

\* Lines 113-118: research_sessions[thread_id] = {...}
store_session(sessions, entry) ==
    IF IndexOf(sessions, entry.thread_id) # 0
    THEN [sessions EXCEPT ![IndexOf(sessions, entry.thread_id)] = entry]
    ELSE Append(sessions, entry)

\* sorted(sessions, key=lambda x: x["timestamp"], reverse=True): descending, equal
\* timestamps in their original order.
RECURSIVE sorted_by_timestamp(_)
sorted_by_timestamp(sessions) ==
    IF sessions = << >> THEN << >>
    ELSE LET latest == Max({sessions[i].timestamp : i \in 1..Len(sessions)})
             first == Min({i \in 1..Len(sessions) : sessions[i].timestamp = latest})
         IN  <<sessions[first]>>
             \o sorted_by_timestamp(SubSeq(sessions, 1, first - 1)
                                    \o SubSeq(sessions, first + 1, Len(sessions)))

\* Lines 169-175: one line of the listing.
session_summary(session) ==
    [thread_id       |-> session.thread_id,
     query           |-> session.query,
     timestamp       |-> session.timestamp,
     processing_time |-> session.processing_time,
     success         |-> session.result.error_message = None]

\* A request, and the handler the loop runs for it.
Request(kind, query, thread_id) == [kind |-> kind, query |-> query, thread_id |-> thread_id]

Handler(req, step, key, start_time, result, count) ==
    [id |-> req.id, kind |-> req.kind, query |-> req.query, thread_id |-> req.thread_id,
     step |-> step, key |-> key, start_time |-> start_time, result |-> result,
     count |-> count]

Response(id, kind, status, body) == [id |-> id, kind |-> kind, status |-> status, body |-> body]

\* Handlers that start while another one is between its first line and its return.
MayStartAnytime(a) == TRUE

\* The event loop starts a coroutine only when the one it was running has returned.
MayStart(a) == a.running = {}

---------------------------------------------------------------------------
\* The application serving up to MaxRequests requests.

ApiInit ==
    /\ api = ApiIdle
    /\ app = AppIdle
    /\ research = ResearchIdle
    /\ rpc = "idle"
    /\ rlog = << >>
    /\ stream = StreamIdle
    /\ returned = None
    /\ initial = initial_state(QUESTION)
    /\ state = initial
    /\ pc = "idle"
    /\ invoked = << >>
    /\ log = << >>

ApiStep(a) ==
    /\ api' = a
    /\ UNCHANGED <<sqlVars, researchVars, callerVars, app>>

Respond(a, r) == [a EXCEPT !.responses = Append(@, r)]

\* A request comes in and waits for the event loop.
Arrive ==
    /\ api.issued < MaxRequests
    /\ \E req \in {Request("research", QUERY_SOLAR, th) : th \in ThreadIds}
                  \cup {Request("research", q, None) : q \in ApiQueries}
                  \cup {Request("get", << >>, Str(k)) : k \in SessionKeys}
                  \cup {Request("list", << >>, None), Request("clear", << >>, None)} :
         ApiStep([api EXCEPT !.issued = @ + 1,
                             !.pending = @ \cup {[id |-> api.issued + 1] @@ req}])

\* time.time() and datetime.now() move on.
Tick ==
    /\ api.now < MaxClock
    /\ ApiStep([api EXCEPT !.now = @ + 1])

\* POST /research, lines 89-97. A body that fails the validation of
\* ResearchRequest is answered with 422 before the handler is entered; the
\* HTTPException of line 95 is raised inside the try block and caught by the
\* 'except Exception' of line 132, which returns a ResearchResponse.
StartResearch ==
    /\ MayStart(api)
    /\ \E req \in api.pending :
         /\ req.kind = "research"
         /\ LET a == [api EXCEPT !.pending = @ \ {req}]
                thread_id == IF Truthy(req.thread_id) THEN req.thread_id.v
                             ELSE generated_thread_id(api.now)
            IN  IF ~request_valid(req.query)
                THEN ApiStep(Respond(a, Response(req.id, "research", 422,
                                                 [detail |-> "validation error"])))
                ELSE IF Strip(req.query) = << >>
                THEN ApiStep(Respond(a, Response(req.id, "research", 200,
                        [success |-> FALSE,
                         error |-> Str("Research failed: " \o ERR_EMPTY_QUERY),
                         data |-> None, processing_time |-> 0])))
                ELSE ApiStep([a EXCEPT !.running =
                                @ \cup {Handler(req, "run", thread_id, api.now, None, 0)}])

\* Line 104: result = run_research(request.query, thread_id)
ResearchRun ==
    \E h \in api.running :
        /\ h.kind = "research" /\ h.step = "run"
        /\ \E result \in RunOutcomes(h.query) :
             ApiStep([api EXCEPT !.runs = @ + 1,
                                 !.running = (@ \ {h}) \cup
                                     {[h EXCEPT !.step = "store", !.result = result]}])

\* Lines 107-118: the processing time and the entry of the session store.
ResearchStore ==
    \E h \in api.running :
        /\ h.kind = "research" /\ h.step = "store"
        /\ LET entry == [thread_id |-> h.key, query |-> h.query, result |-> h.result,
                         timestamp |-> api.now,
                         processing_time |-> api.now - h.start_time]
           IN  ApiStep([api EXCEPT
                   !.sessions = store_session(@, entry),
                   !.history = Append(@, [op |-> "insert", id |-> h.id, key |-> h.key,
                                          given |-> Truthy(h.thread_id),
                                          query |-> h.query, result |-> h.result]),
                   !.running = (@ \ {h}) \cup
                       {[h EXCEPT !.step = "respond", !.count = entry.processing_time]}])

\* Lines 121-130: the response of a run.
ResearchRespond ==
    \E h \in api.running :
        /\ h.kind = "research" /\ h.step = "respond"
        /\ LET formatted_result == format_research_response(h.result)
           IN  ApiStep(Respond([api EXCEPT !.running = @ \ {h}],
                   Response(h.id, "research", 200,
                       [success |-> formatted_result.success,
                        error |-> formatted_result.error,
                        data |-> formatted_result.data,
                        processing_time |-> h.count])))

\* GET /research/session/{thread_id}, lines 144-161.
GetSession ==
    /\ MayStart(api)
    /\ \E req \in api.pending :
         /\ req.kind = "get"
         /\ LET a == [api EXCEPT !.pending = @ \ {req}]
                i == IndexOf(api.sessions, req.thread_id.v)
            IN  IF i = 0
                THEN ApiStep(Respond(a, Response(req.id, "get", 404,
                                    [detail |-> "Research session not found"])))
                ELSE ApiStep(Respond(a, Response(req.id, "get", 200,
                        [thread_id |-> req.thread_id.v,
                         query |-> api.sessions[i].query,
                         timestamp |-> api.sessions[i].timestamp,
                         processing_time |-> api.sessions[i].processing_time,
                         result |-> format_research_response(api.sessions[i].result)])))

\* GET /research/sessions, lines 163-181.
ListSessions ==
    /\ MayStart(api)
    /\ \E req \in api.pending :
         /\ req.kind = "list"
         /\ LET sessions == [i \in 1..Len(api.sessions) |->
                                session_summary(api.sessions[i])]
            IN  ApiStep(Respond([api EXCEPT !.pending = @ \ {req}],
                    Response(req.id, "list", 200,
                        [total_sessions |-> Len(sessions),
                         sessions |-> sorted_by_timestamp(sessions)])))

\* DELETE /research/sessions, line 188: count = len(research_sessions)
StartClear ==
    /\ MayStart(api)
    /\ \E req \in api.pending :
         /\ req.kind = "clear"
         /\ ApiStep([api EXCEPT !.pending = @ \ {req},
                                !.running = @ \cup
                                    {Handler(req, "clear", "", api.now, None,
                                             Len(api.sessions))}])

\* Lines 189-190: research_sessions.clear() and the response.
ClearSessions ==
    \E h \in api.running :
        /\ h.kind = "clear" /\ h.step = "clear"
        /\ ApiStep(Respond([api EXCEPT !.sessions = << >>,
                                       !.history = Append(@, [op |-> "clear", id |-> h.id]),
                                       !.running = @ \ {h}],
                Response(h.id, "clear", 200,
                    [message |-> "Cleared " \o NumStr(h.count) \o " research sessions"])))

ApiNext ==
    \/ Arrive \/ Tick
    \/ StartResearch \/ ResearchRun \/ ResearchStore \/ ResearchRespond
    \/ GetSession \/ ListSessions
    \/ StartClear \/ ClearSessions

ApiSpec == ApiInit /\ [][ApiNext]_vars

---------------------------------------------------------------------------
\* Properties of one research run (ResearchSpec).

\* C5: once error_message is set, an invocation of content_loader,
\* document_summarizer, report_writer or citation_cache returns its input record
\* unchanged and makes no retrieval or generation call.
C5_ResearchShortCircuit ==
    [][(/\ rpc \in {"content_loader", "summarizer", "report_writer", "citation_cache"}
        /\ Truthy(research.error_message))
       => (research' = research /\ rlog' = rlog)]_vars

\* C10: once content_loader has returned, page_contents holds exactly one record
\* per search result, in the order of search_results.
C10_OnePagePerSearchResult ==
    rpc \in {"summarizer", "report_writer", "citation_cache", "END"} =>
        /\ Len(research.page_contents) = Len(research.search_results)
        /\ \A i \in 1..Len(research.page_contents) :
             /\ research.page_contents[i].title = research.search_results[i].title
             /\ research.page_contents[i].url = research.search_results[i].url

---------------------------------------------------------------------------
\* Retrieval faults in content_loader (ResearchSpec).

\* The fetches that failed so far: the loader raised or returned no document.
FailedFetches == {i \in 1..Len(rlog) : rlog[i].op = "fetch" /\ ~rlog[i].ok}

\* The records of page_contents made from the search result's own text.
FallbackPages(s) ==
    {j \in 1..Len(s.page_contents) : s.page_contents[j].metadata.source = "tavily_fallback"}

\* The text the search service returned for the page at this URL.
CachedContent(s, url) ==
    {s.search_results[k].content :
        k \in {n \in 1..Len(s.search_results) : s.search_results[n].url = url}}

\* C11: a failed fetch is absorbed per item. content_loader leaves error_message
\* as it was, whatever the fetches did; every failed fetch gives one record that
\* carries the search result's cached content and the source tag 'tavily_fallback',
\* so the fallback-tagged records are as many as the failed fetches; and
\* document_summarizer summarizes every record of page_contents.
C11_RetrievalFaultAbsorbed ==
    [][/\ (rpc = "content_loader" /\ rpc' = "summarizer") =>
             /\ research'.error_message = research.error_message
             /\ Cardinality(FallbackPages(research')) = Cardinality(FailedFetches')
             /\ Len(research'.page_contents)
                  = Cardinality({i \in 1..Len(rlog') : rlog'[i].op = "fetch"})
             /\ \A j \in FallbackPages(research') :
                  research'.page_contents[j].content
                      \in CachedContent(research', research'.page_contents[j].url)
       /\ (rpc = "summarizer" /\ rpc' = "report_writer") =>
             /\ Len(research'.summaries) = Len(research.page_contents)
             /\ \A j \in 1..Len(research.page_contents) :
                  /\ research'.summaries[j].url = research.page_contents[j].url
                  /\ rlog'[Len(rlog) + j].op = "generate"
                  /\ rlog'[Len(rlog) + j].arg = research.page_contents[j].url]_vars

\* Two pages were fetched, one fetch failed and one succeeded, and both records
\* have been summarized.
C11_Witness ==
    /\ rpc = "report_writer"
    /\ Cardinality(FailedFetches) = 1
    /\ Cardinality(FallbackPages(research)) = 1
    /\ Len(research.page_contents) = 2
    /\ Len(research.summaries) = 2
    /\ research.error_message = None

---------------------------------------------------------------------------
\* Properties of one run_research_stream run (StreamSpec).

IsTerminalEvent(e) == e.type \in {"result", "error"}
TerminalEvents == {i \in 1..Len(stream.events) : IsTerminalEvent(stream.events[i])}

\* C12: a run consumed to its end has exactly one terminal event, a 'result' or an
\* 'error' event, and at no time does an event follow a terminal event.
C12_OneTerminalEvent ==
    /\ Cardinality(TerminalEvents) <= 1
    /\ \A i \in TerminalEvents : i = Len(stream.events)
    /\ stream.pos = "done" => Cardinality(TerminalEvents) = 1

\* The consumer pulled until StopIteration and the last of the eight events was
\* the result.
C12_Witness ==
    /\ stream.pos = "done"
    /\ Len(stream.events) = 8
    /\ stream.events[8].type = "result"

\* The events that carry a progress value.
WithProgress == {i \in 1..Len(stream.events) : "progress" \in DOMAIN stream.events[i]}

\* C13: the progress values of successive events strictly increase, the first event
\* is below 100, every value is in 0..100, and a result event comes only after an
\* event with progress 100.
C13_ProgressStrictlyIncreases ==
    /\ \A i, j \in WithProgress :
         i < j => stream.events[i].progress < stream.events[j].progress
    /\ \A i \in WithProgress : stream.events[i].progress \in 0..100
    /\ stream.events # << >> => (1 \in WithProgress /\ stream.events[1].progress < 100)
    /\ \A i \in 1..Len(stream.events) :
         stream.events[i].type = "result" =>
            \E j \in WithProgress : j < i /\ stream.events[j].progress = 100

\* The run went through without an exception: seven status events, the last one
\* at 100, then the result.
C13_Witness ==
    /\ Len(stream.events) = 8
    /\ stream.events[6].progress = 95
    /\ stream.events[7].progress = 100
    /\ stream.events[8].type = "result"

\* The stages in the order create_research_workflow declares them, and the step
\* names of their events.
STAGES == <<"web_search", "content_loader", "summarizer", "report_writer",
            "citation_cache">>
STAGE_STEPS == <<"searching", "loading", "summarizing", "writing", "finalizing">>

IsStageEvent(e) == e.type = "status" /\ e.step \in {STAGE_STEPS[k] : k \in 1..5}
IsRan(x) == x.kind = "stage"
StageEvents == SelectSeq(stream.events, IsStageEvent)

\* Where in the trace the event of the k-th stage was yielded.
YieldOf(k) ==
    {y \in 1..Len(stream.trace) :
        stream.trace[y].kind = "yield" /\ stream.trace[y].name = STAGE_STEPS[k]}

\* C14: the events that name a stage come in the order of the stages, one per
\* stage; when the event of the k-th stage is yielded exactly the first k stages
\* have run, the k-th last; a run without an exception has all five.
C14_StageEventsInDeclarationOrder ==
    /\ Len(StageEvents) <= 5
    /\ \A k \in 1..Len(StageEvents) :
         /\ StageEvents[k].step = STAGE_STEPS[k]
         /\ Cardinality(YieldOf(k)) = 1
         /\ \A y \in YieldOf(k) :
              SelectSeq(SubSeq(stream.trace, 1, y), IsRan)
                  = [n \in 1..k |-> Ran(STAGES[n])]
    /\ (\E i \in 1..Len(stream.events) : stream.events[i].type = "result")
         => Len(StageEvents) = 5

\* A run without an exception, consumed up to its result.
C14_Witness ==
    /\ stream.pos = "result"
    /\ Len(StageEvents) = 5
    /\ StageEvents[5].step = "finalizing"

\* A step in which the engine starts a node.
StageStarts == Len(stream'.trace) > Len(stream.trace)
               /\ stream'.trace[Len(stream.trace) + 1].kind = "stage"

\* C15: at most one yielded event is not yet pulled past by the consumer, and no
\* node is started while such an event exists.
C15_OneEventAtATime ==
    [][/\ Len(stream'.events) - stream'.accepted <= 1
       /\ StageStarts => stream.accepted = Len(stream.events)]_vars

\* The consumer holds the fourth event, has pulled past three, and report_writer
\* has not been started.
C15_Witness ==
    /\ Len(stream.events) = 4
    /\ stream.accepted = 3
    /\ ~stream.demand
    /\ rpc = "report_writer"

\* C16: once the consumer has stopped pulling, no node runs, no service is called
\* and no event is yielded, neither by the stop itself nor later; and the event of
\* a stage is yielded in the same resumption in which the stage ran, after it.
C16_AbandonedRunStops ==
    [][/\ (stream.closed \/ stream'.closed) =>
             /\ stream'.events = stream.events
             /\ stream'.trace = stream.trace
             /\ rlog' = rlog /\ research' = research /\ rpc' = rpc
       /\ (Len(stream'.events) > Len(stream.events)
           /\ IsStageEvent(stream'.events[Len(stream'.events)])) =>
             /\ Len(stream'.trace) = Len(stream.trace) + 2
             /\ IsRan(stream'.trace[Len(stream.trace) + 1])
             /\ step_of(stream'.trace[Len(stream.trace) + 1].name)
                  = stream'.events[Len(stream'.events)].step]_vars

\* The consumer stopped after the 'loading' event: the summarizer and the later
\* stages never ran.
C16_Witness ==
    /\ stream.closed
    /\ Len(stream.events) = 3
    /\ stream.events[3].step = "loading"
    /\ rpc = "summarizer"
    /\ stream.trace[Len(stream.trace)] = Yielded(stream.events[3])

---------------------------------------------------------------------------
\* Properties of the synchronous runs.

\* C17: when a run of the SQL graph is over, every one of its four nodes has been
\* invoked exactly once, in the declared order.
C17_EveryStageInvokedOnce ==
    pc \in {"END", "FAULT"} =>
        invoked = <<"sql_generator", "query_validator", "query_executor",
                    "response_explainer">>

\* The engine raised during the run of run_research.
EngineRaised == \E i \in 1..Len(rlog) : rlog[i].stage = "engine" /\ ~rlog[i].ok

\* C18: run_research always returns one ResearchState record; when the engine
\* raised, that record is the initial state with error_message 'Workflow failed:
\* ...' and every derived field empty.
C18_RunResearchNeverRaises ==
    rpc = "returned" =>
        /\ returned # None
        /\ DOMAIN returned = DOMAIN research_initial_state("")
        /\ EngineRaised =>
             /\ returned = [research_initial_state(research.query) EXCEPT
                               !.error_message = Str("Workflow failed: " \o ERR_ENGINE)]
             /\ returned.search_results = << >> /\ returned.page_contents = << >>
             /\ returned.summaries = << >> /\ returned.citations = << >>
             /\ returned.final_report = ""
        /\ ~EngineRaised => returned = research

\* The engine raised after the search and the loader had filled the record.
C18_Witness ==
    /\ rpc = "returned"
    /\ EngineRaised
    /\ Len(research.page_contents) = 2
    /\ returned.page_contents = << >>
    /\ Truthy(returned.error_message)

\* C19: in both pipelines error_message, once set and non-empty, is set and
\* non-empty in every later state of the run.
C19_ErrorMessageSticky ==
    [][/\ Truthy(state.error_message) => Truthy(state'.error_message)
       /\ Truthy(research.error_message) => Truthy(research'.error_message)]_vars

\* The error the first research stage set is still there when the run has ended.
C19_Witness ==
    /\ rpc = "END"
    /\ research.error_message = Str("Search failed: " \o ERR_SEARCH)
    /\ research.final_report = REPORT

\* The generate calls that failed so far in the research run.
FailedGenerations == {i \in 1..Len(rlog) : rlog[i].op = "generate" /\ ~rlog[i].ok}

\* C20: a stage of the research pipeline in which a generate call failed returns
\* its record with error_message set.
C20_FailedGenerationSetsError ==
    [][FailedGenerations' # FailedGenerations => Truthy(research'.error_message)]_vars

---------------------------------------------------------------------------
\* format_research_response on the record run_research returned (RunResearchSpec).

\* No call of the run failed: search, every fetch and every generation returned
\* and the engine did not raise.
NoFault == \A i \in 1..Len(rlog) : rlog[i].ok

\* C21: for a run without a fault the formatted response has success = TRUE and
\* sources_found, pages_processed and summaries_generated all equal to the number
\* of entries the search returned; for a record with error_message set it has
\* success = FALSE, data = None and the message as its error.
C21_FormattedCountsMatchSearch ==
    rpc = "returned" =>
        LET formatted == format_research_response(returned)
        IN  /\ NoFault =>
                 /\ formatted.success
                 /\ formatted.data.sources_found = Len(returned.search_results)
                 /\ formatted.data.pages_processed = Len(returned.search_results)
                 /\ formatted.data.summaries_generated = Len(returned.search_results)
            /\ Truthy(returned.error_message) =>
                 /\ ~formatted.success
                 /\ formatted.data = None
                 /\ formatted.error = returned.error_message

---------------------------------------------------------------------------
\* The denylist scan on a text with several keywords (StageSpec).

\* The places of destructive_keywords whose keyword stands somewhere in the text,
\* whatever the case of its letters.
KeywordsIn(text) ==
    {n \in 1..Len(destructive_keywords) :
        \E i \in 1..(Len(text) - Len(destructive_keywords[n]) + 1) :
            \A k \in 1..Len(destructive_keywords[n]) :
                SameChar(text[i + k - 1], destructive_keywords[n][k])}

\* A call of query_validator_node that gets as far as the scan.
ScansQuery ==
    /\ pc = "call" /\ pc' = "call"
    /\ invoked' = Append(invoked, "query_validator")
    /\ ~Truthy(state.error_message)
    /\ state.generated_sql # None

\* C24: on a query that holds two or more denylisted keywords query_validator_node
\* reports one keyword, the one that comes first in the order the scan goes through
\* destructive_keywords, whatever the record held before; so a second validation of
\* the same text reports the same keyword.
C24_FirstKeywordInScanOrder ==
    [][(ScansQuery /\ Cardinality(KeywordsIn(state.generated_sql.v)) >= 2) =>
          /\ \E n \in KeywordsIn(state.generated_sql.v) :
               /\ \A m \in KeywordsIn(state.generated_sql.v) : n <= m
               /\ state'.sql_validation_error
                    = Str(MSG_DESTRUCTIVE \o destructive_keywords[n])
          /\ state'.generated_sql = state.generated_sql
          /\ log' = log]_vars

\* 'DeLeTe drop' has been validated twice and both times DROP, which the list has
\* before DELETE, was reported.
C24_Witness ==
    /\ invoked = <<"query_validator", "query_validator">>
    /\ state.generated_sql = Str(W_DELETE_MIXED \o <<" ">> \o W_DROP_LOWER)
    /\ initial.sql_validation_error = None
    /\ state.sql_validation_error = Str(MSG_DESTRUCTIVE \o KW_DROP)

---------------------------------------------------------------------------
\* Connections to the database (Spec).

\* The connections sqlite3.connect has opened and the close() calls made so far.
Opened == {i \in 1..Len(log) : log[i].op = "connect" /\ log[i].ok}
Closed == {i \in 1..Len(log) : log[i].op = "close"}

\* C25: between the stages no connection is open: every connection a node opened
\* was closed before the node returned.
C25_NoConnectionLeftOpen ==
    Cardinality(Opened) = Cardinality(Closed)

\* C27: at most one of sql_validation_error and error_message is non-empty, and
\* query_results is present only when both are empty.
C27_AtMostOneErrorField ==
    /\ ~(Truthy(state.sql_validation_error) /\ Truthy(state.error_message))
    /\ state.query_results # None =>
         (~Truthy(state.sql_validation_error) /\ ~Truthy(state.error_message))

\* The executor has run on a rejected query and has left it alone.
C27_Witness ==
    /\ pc = "END"
    /\ Truthy(state.sql_validation_error)
    /\ ~Truthy(state.error_message)
    /\ state.query_results = None
    /\ Len(invoked) = 4

---------------------------------------------------------------------------
\* The stage executions behind the events of a streamed run (StreamSpec).

\* How often the engine has run the node in this call of run_research_stream.
TimesRun(node) ==
    Cardinality({i \in 1..Len(stream.trace) : stream.trace[i] = Ran(node)})

\* The count the status event of this step carried, under this name.
CountShown(step, name) ==
    {stream.events[i].data[name] :
        i \in {j \in 1..Len(stream.events) :
                 stream.events[j].type = "status" /\ stream.events[j].step = step}}

ResultEvents == {i \in 1..Len(stream.events) : stream.events[i].type = "result"}

\* C28: in one call of run_research_stream no stage is run more than once, and the
\* counts in the data of a successful result event are the counts the status
\* events of the same run carried.
C28_StagesRunOnceAndCountsAgree ==
    /\ \A k \in 1..5 : TimesRun(STAGES[k]) <= 1
    /\ \A i \in ResultEvents :
         stream.events[i].data # None =>
            /\ CountShown("searching", "sources_found")
                 = {stream.events[i].data.sources_found}
            /\ CountShown("loading", "pages_processed")
                 = {stream.events[i].data.pages_processed}
            /\ CountShown("summarizing", "summaries_generated")
                 = {stream.events[i].data.summaries_generated}

\* C29: a run whose result event carries an error has no 'completed' event, and
\* that result event has data = None; a run with a 'completed' event ends with a
\* result event without an error.
C29_CompletedOnlyWithoutError ==
    \A i \in ResultEvents :
        /\ stream.events[i].error # None =>
             /\ stream.events[i].data = None
             /\ \A j \in 1..Len(stream.events) :
                  ~(stream.events[j].type = "status" /\ stream.events[j].step = "completed")
        /\ stream.events[i].error = None => stream.events[i].data # None

---------------------------------------------------------------------------
\* Properties of the session store and its requests (ApiSpec).

\* A step in which a response is sent, the response, and the request it answers
\* when the handler answers in its first step.
Responds == Len(api'.responses) = Len(api.responses) + 1
Sent == api'.responses[Len(api'.responses)]
Answered == CHOOSE q \in api.pending : q.id = Sent.id

\* The inserts done on the store since it was last cleared.
SinceClear(history) ==
    {i \in 1..Len(history) :
        /\ history[i].op = "insert"
        /\ \A j \in i..Len(history) : history[j].op # "clear"}

StoredUnder(history, key) == {i \in SinceClear(history) : history[i].key = key}

\* C22: a get answers 404 exactly when no run was stored under the key since the
\* last clear, otherwise 200 with the query and the formatted terminal record of
\* the run stored last under it, and leaves the store as it was; a clear reports
\* the number of entries the store held and leaves it empty.
C22_SessionStoreBehaves ==
    [][Responds =>
        /\ Sent.kind = "get" =>
             LET stored == StoredUnder(api.history, Answered.thread_id.v)
             IN  /\ Sent.status \in {200, 404}
                 /\ Sent.status = 404 <=> stored = {}
                 /\ stored # {} =>
                      /\ Sent.body.query = api.history[Max(stored)].query
                      /\ Sent.body.result
                           = format_research_response(api.history[Max(stored)].result)
                 /\ api'.sessions = api.sessions
        /\ Sent.kind = "clear" =>
             /\ Sent.body.message
                  = "Cleared "
                    \o NumStr(Cardinality({api.history[i].key : i \in SinceClear(api.history)}))
                    \o " research sessions"
             /\ api'.sessions = << >>]_vars

\* Two runs were stored under 't1' with different terminal records and a get of
\* 't1' has then been answered.
C22_Witness ==
    /\ Len(api.history) = 2
    /\ api.history[1].op = "insert" /\ api.history[1].key = "t1"
    /\ api.history[2].op = "insert" /\ api.history[2].key = "t1"
    /\ api.history[1].result # api.history[2].result
    /\ Len(api.responses) = 3
    /\ api.responses[3].kind = "get" /\ api.responses[3].status = 200

\* The handler is between the start and the end of a write to the store: a run
\* about to store its session, a clear between its count and its clear().
Writes(h, key) ==
    \/ h.kind = "research" /\ h.step = "store" /\ h.key = key
    \/ h.kind = "clear" /\ h.step = "clear"

\* The keys the store may hold.
StoreKeys == SessionKeys \cup {generated_thread_id(n) : n \in 0..MaxClock}

\* C23: no two handlers are at the same time inside a write to the same key, no
\* handler runs while another is inside a write, and every entry of the store is
\* whole.
C23_OneWriterPerKey ==
    /\ \A h1, h2 \in api.running : \A key \in StoreKeys :
         h1 # h2 => /\ ~(Writes(h1, key) /\ Writes(h2, key))
                    /\ ~Writes(h1, key)
    /\ \A i \in 1..Len(api.sessions) :
         /\ DOMAIN api.sessions[i]
              = {"thread_id", "query", "result", "timestamp", "processing_time"}
         /\ DOMAIN api.sessions[i].result = DOMAIN research_initial_state("")

\* A run is about to store its session under 't1' while another run for 't1' and
\* a clear wait for the loop.
C23_Witness ==
    /\ \E h \in api.running : Writes(h, "t1")
    /\ \E q \in api.pending : q.kind = "research" /\ q.thread_id = Str("t1")
    /\ \E q \in api.pending : q.kind = "clear"

\* C26: a POST /research whose query is empty once stripped is answered with
\* status 400 and 'Query cannot be empty'; no run is started and nothing is stored.
C26_EmptyQueryRejectedWith400 ==
    [][(/\ Responds
        /\ Sent.kind = "research"
        /\ \E q \in api.pending : q.id = Sent.id
        /\ request_valid(Answered.query)
        /\ Strip(Answered.query) = << >>)
       => /\ Sent.status = 400
          /\ Sent.body = [detail |-> "Query cannot be empty"]
          /\ api'.runs = api.runs
          /\ api'.sessions = api.sessions]_vars

\* C30: two runs requested without a thread_id are stored under different keys.
C30_DistinctGeneratedIds ==
    \A i, j \in 1..Len(api.history) :
        (/\ i < j
         /\ api.history[i].op = "insert" /\ api.history[j].op = "insert"
         /\ ~api.history[i].given /\ ~api.history[j].given)
        => api.history[i].key # api.history[j].key

====
